---- MODULE Spec2Model ----
(***************************************************************************)
(* ContSysSim: a discrete-event simulation (SimPy) of nodes that host      *)
(* containers that run workload requests.                                   *)
(*                                                                         *)
(* The model keeps SimPy's event queue: every pending event is a record    *)
(* (time, priority, eid) carrying the continuation of the process that     *)
(* waits for it.  One action of the model is one resumption of one process *)
(* (the code between two yields).  Virtual time is kept on a grid of TU    *)
(* steps per time unit, so that start-up delays such as 0.5 are            *)
(* representable.  Random draws are nondeterministic choices.              *)
(***************************************************************************)
EXTENDS Integers, Sequences, FiniteSets, TLC

\* ---------------------------------------------------------------- bounds
\* grid steps per virtual time unit
TU == 2
\* simulation_time handed to Simulation.run, in time units
Horizon == 5
\* how many random draws of one run may differ from the centre of their range
MaxNoise == 1
\* bits of mantissa of the floating-point numbers that hold the cpu values
MantBits == 3
\* how many entities the client of the constructors creates
MaxCreated == 5

\* ------------------------------------------------------- program constants
\* Container.run: yield self.env.timeout(1)
ContainerTick == 1
\* Node.monitor: yield self.env.timeout(2)
MonitorPeriod == 2
\* Node.run: yield self.env.timeout(1)
NodeRunPeriod == 1
\* simpy: priority of Initialize events and of the until-event of run()
URGENT == 0
\* simpy: priority of Timeout events
NORMAL == 1

\* ---------------------------------------------------------------- helpers
Dims == {"cpu", "ram", "disk", "bw"}
Zero4 == [cpu |-> 0, ram |-> 0, disk |-> 0, bw |-> 0]

Max(a, b) == IF a >= b THEN a ELSE b
Min(a, b) == IF a <= b THEN a ELSE b
Abs(x) == IF x >= 0 THEN x ELSE -x
Last(s) == s[Len(s)]

RECURSIVE Pow2(_)
Pow2(n) == IF n = 0 THEN 1 ELSE 2 * Pow2(n - 1)

\* ------------------------------------------------ floating point (cpu)
\* The cpu quantities are Python floats.  FRound rounds an exact value to
\* the nearest number with MantBits significant bits, ties to even, which
\* is what every float addition and subtraction does to its exact result.
RECURSIVE FQuantum(_, _)
FQuantum(a, q) == IF a < Pow2(MantBits) * q THEN q ELSE FQuantum(a, 2 * q)

FRound(x) ==
    LET a == Abs(x)
        q == FQuantum(a, 1)
        m == a \div q
        r == a - m * q
        up == IF 2 * r > q \/ (2 * r = q /\ m % 2 = 1) THEN (m + 1) * q ELSE m * q
    IN IF x >= 0 THEN up ELSE -up

\* x + y in dimension d: a float addition for cpu, an int addition otherwise
Plus(d, x, y) == IF d = "cpu" THEN FRound(x + y) ELSE x + y

\* u += v and u -= v on the four usages of a container
AddVec(u, v) == [d \in Dims |-> Plus(d, u[d], v[d])]
SubVec(u, v) == [d \in Dims |-> Plus(d, u[d], -v[d])]

\* ------------------------------------------------------- random draws
\* The four draws of one call, one per dimension: lo and hi give the range
\* of each dimension, mid its centre; at most `left` of the draws differ
\* from the centre (MaxNoise bounds the draws of a whole run).
NoiseCost(v, mid) == Cardinality({d \in Dims : v[d] # mid[d]})

Draw4(lo, hi, mid, left) ==
    { v \in { [cpu |-> a, ram |-> b, disk |-> c, bw |-> e] :
                a \in lo.cpu .. hi.cpu, b \in lo.ram .. hi.ram,
                c \in lo.disk .. hi.disk, e \in lo.bw .. hi.bw } :
        NoiseCost(v, mid) <= left }

\* int(unit_value * (saturation / 100)) for a base value and a percentage
PctOf(base, pct) == (base * pct) \div 100

\* WorkloadRequest.current_unit_workload: the range of the sample.  An int
\* dimension draws an integer of max(0, int(v - s)) .. int(v + s); cpu draws
\* a real of [max(0, v - s), v + s], of which the model keeps the grid points.
WorkloadLo(d, base, pct) ==
    IF pct >= 100 THEN 0
    ELSE IF d = "cpu" THEN (base * (100 - pct) + 99) \div 100
    ELSE (base * (100 - pct)) \div 100
WorkloadHi(d, base, pct) == (base * (100 + pct)) \div 100

\* WorkloadRequest.current_<dim>_workload for the four dimensions of w
CurrentWorkload(w, left) ==
    Draw4([d \in Dims |-> WorkloadLo(d, w.base[d], w.pct[d])],
          [d \in Dims |-> WorkloadHi(d, w.base[d], w.pct[d])],
          w.base, left)

\* WorkloadRequest.current_unit_saturation for the four dimensions of w
CurrentFluctuation(w, left) ==
    Draw4([d \in Dims |-> -PctOf(w.base[d], w.pct[d])],
          [d \in Dims |-> PctOf(w.base[d], w.pct[d])],
          Zero4, left)

\* the draws of add_base_fluctuation (Container and Node): +- pct% of the base
BaseFluctuation(cap, pct, left) ==
    Draw4([d \in Dims |-> -PctOf(cap[d], pct[d])],
          [d \in Dims |-> PctOf(cap[d], pct[d])],
          Zero4, left)

\* ------------------------------------------------------------- entities
\* the nodes, the containers and the workload requests are those of the
\* configuration (conf, below), numbered in the order of their construction
NoPct == Zero4
\* capacities and fluctuation percentages of the entities
NodeCap == [cpu |-> 32, ram |-> 4, disk |-> 4, bw |-> 4]
NodePct == [cpu |-> 0, ram |-> 0, disk |-> 0, bw |-> 25]
ContainerCap == [cpu |-> 8, ram |-> 4, disk |-> 4, bw |-> 4]
ContainerPct == [cpu |-> 0, ram |-> 25, disk |-> 25, bw |-> 0]
Heavy == [cpu |-> 7, ram |-> 3, disk |-> 1, bw |-> 2]
Light == [cpu |-> 4, ram |-> 1, disk |-> 1, bw |-> 1]
WorkloadPct == [cpu |-> 15, ram |-> 50, disk |-> 0, bw |-> 0]

\* the workload requests a client may create: base demand, delay, duration
WorkloadKinds ==
    { [type |-> "heavy", base |-> Heavy, delay |-> TU, duration |-> 2 * TU],
      [type |-> "light", base |-> Light, delay |-> 2 * TU, duration |-> TU],
      [type |-> "light", base |-> Light, delay |-> TU, duration |-> 3 * TU],
      [type |-> "heavy", base |-> Heavy, delay |-> 2 * TU, duration |-> 2 * TU] }

\* which class of entities fluctuates in a run
JitterModes == {"none", "workload", "container", "node"}

\* the order in which the client constructs the entities (each constructor
\* registers the entity's run process): containers first, or nodes first
Orders == {"cf", "nf"}

\* the configurations of a run: one node hosting two containers, two
\* workload requests; start-up delay 1 grid step for the node and the first
\* container, short or long for the second container; the runs with
\* fluctuation construct the containers first.  dc: a data center is handed
\* to Simulation.run; horizon: simulation_time, in grid steps.
Configs ==
    { cf \in
        { [ order |-> o, stopLack |-> s, jitter |-> j, dc |-> TRUE,
            horizon |-> Horizon * TU, ncap |-> NodeCap, nsud |-> 1,
            ccap |-> <<ContainerCap, ContainerCap>>, csud |-> <<1, d2>>,
            wl |-> <<k1, k2>> ] :
            o \in Orders, s \in BOOLEAN, j \in JitterModes,
            d2 \in {1, 2 * TU}, k1 \in WorkloadKinds, k2 \in WorkloadKinds } :
        cf.jitter = "none" \/ cf.order = "cf" }

\* ------------------------------------------------ load-balancer batches
\* a second container size, and two more workload requests: one that fills a
\* small container exactly and one that is too large for it
BigCap == [cpu |-> 16, ram |-> 8, disk |-> 8, bw |-> 8]
Huge == [cpu |-> 10, ram |-> 5, disk |-> 5, bw |-> 5]
BatchKinds ==
    { [type |-> "heavy", base |-> Heavy, delay |-> TU, duration |-> 2 * TU],
      [type |-> "light", base |-> Light, delay |-> TU, duration |-> 3 * TU],
      [type |-> "full", base |-> ContainerCap, delay |-> 0, duration |-> TU],
      [type |-> "huge", base |-> Huge, delay |-> 2 * TU, duration |-> TU] }

\* a node hosting two containers, of equal or of different size, and a batch
\* of three workload requests for a load balancer
BatchConfigs ==
    { [ order |-> "cf", stopLack |-> TRUE, jitter |-> "none", dc |-> TRUE,
        horizon |-> Horizon * TU, ncap |-> NodeCap, nsud |-> 1,
        ccap |-> <<ContainerCap, c2>>, csud |-> <<1, 1>>,
        wl |-> <<k1, k2, k3>> ] :
        c2 \in {ContainerCap, BigCap},
        k1 \in BatchKinds, k2 \in BatchKinds, k3 \in BatchKinds }

\* ---------------------------------------------------- concrete scenarios
\* a start-up delay of x tenths of a time unit, rounded up to the grid
\* (the defaults: 0.5 for a node, 0.9 for a container)
Tenths(x) == (x * TU + 9) \div 10

\* the entities of the scenarios; cpu in halves of a core (S4: in tenths)
N1Cap == [cpu |-> 16, ram |-> 16384, disk |-> 20480, bw |-> 10000]
C1Cap == [cpu |-> 4, ram |-> 1024, disk |-> 1024, bw |-> 1000]
C2Cap == [cpu |-> 8, ram |-> 3072, disk |-> 5120, bw |-> 3000]
W1 == [type |-> "1. User Request",
       base |-> [cpu |-> 2, ram |-> 512, disk |-> 512, bw |-> 400],
       delay |-> 3 * TU, duration |-> 8 * TU]
W2 == [type |-> "2. User Request",
       base |-> [cpu |-> 4, ram |-> 512, disk |-> 1024, bw |-> 400],
       delay |-> 1 * TU, duration |-> 8 * TU]
W3 == [type |-> "3. User Request",
       base |-> [cpu |-> 1, ram |-> 128, disk |-> 1024, bw |-> 200],
       delay |-> 1 * TU, duration |-> 5 * TU]

\* S1: one node, one container, one workload that completes
ScenarioS1(o) == [ order |-> o, stopLack |-> TRUE, jitter |-> "none", dc |-> TRUE,
           horizon |-> 15 * TU, ncap |-> N1Cap, nsud |-> Tenths(5),
           ccap |-> <<C1Cap>>, csud |-> <<Tenths(9)>>, wl |-> <<W1>> ]

\* S2 and S3: two containers on N1 and a batch of three workloads
ScenarioS23(o) == [ order |-> o, stopLack |-> TRUE, jitter |-> "none", dc |-> TRUE,
            horizon |-> 15 * TU, ncap |-> N1Cap, nsud |-> Tenths(5),
            ccap |-> <<C1Cap, C2Cap>>, csud |-> <<Tenths(9), Tenths(9)>>,
            wl |-> <<W1, W2, W3>> ]

\* S4: a node of the size of its container, and workloads that exceed it
S4Cap == [cpu |-> 20, ram |-> 1024, disk |-> 1024, bw |-> 1000]
ScenarioS4(o) == [ order |-> o, stopLack |-> TRUE, jitter |-> "none", dc |-> TRUE,
           horizon |-> 10 * TU, ncap |-> S4Cap, nsud |-> Tenths(5),
           ccap |-> <<S4Cap>>, csud |-> <<Tenths(9)>>,
           wl |-> << [type |-> "W1", base |-> S4Cap,
                      delay |-> 1 * TU, duration |-> 5 * TU],
                     [type |-> "W2",
                      base |-> [cpu |-> 1, ram |-> 1, disk |-> 1, bw |-> 1],
                      delay |-> 1 * TU, duration |-> 5 * TU] >> ]

\* S5: a workload that no container can take
ScenarioS5(o) == [ order |-> o, stopLack |-> TRUE, jitter |-> "none", dc |-> TRUE,
           horizon |-> Horizon * TU, ncap |-> N1Cap, nsud |-> Tenths(5),
           ccap |-> << [cpu |-> 2, ram |-> 256, disk |-> 256, bw |-> 100] >>,
           csud |-> <<Tenths(9)>>,
           wl |-> << [type |-> "W1",
                      base |-> [cpu |-> 4, ram |-> 256, disk |-> 256, bw |-> 100],
                      delay |-> 0, duration |-> 1 * TU] >> ]

\* a batch for one container whose cpu demands do not add up exactly: the
\* float sum of the first two is above their exact sum (as 0.1 + 0.2 is in
\* Python); the first workload ends before the third begins
RoundedCap == [cpu |-> 14, ram |-> 1024, disk |-> 1024, bw |-> 1000]
ScenarioRounded(o) ==
    [ order |-> o, stopLack |-> TRUE, jitter |-> "none", dc |-> TRUE,
      horizon |-> 6 * TU, ncap |-> [N1Cap EXCEPT !.cpu = 32], nsud |-> Tenths(5),
      ccap |-> <<RoundedCap>>, csud |-> <<Tenths(9)>>,
      wl |-> << [type |-> "W1",
                 base |-> [cpu |-> 5, ram |-> 128, disk |-> 128, bw |-> 100],
                 delay |-> 0, duration |-> (5 * TU) \div 2],
                [type |-> "W2",
                 base |-> [cpu |-> 6, ram |-> 128, disk |-> 128, bw |-> 100],
                 delay |-> 0, duration |-> 10 * TU],
                [type |-> "W3",
                 base |-> [cpu |-> 8, ram |-> 128, disk |-> 128, bw |-> 100],
                 delay |-> 3 * TU, duration |-> 3 * TU] >> ]

\* a client that calls Simulation.run without a data center
NoDatacenter(cf) == [cf EXCEPT !.dc = FALSE]

ScenarioConfigs ==
    BatchConfigs
    \cup UNION { {ScenarioS1(o), ScenarioS23(o), ScenarioS4(o), ScenarioS5(o),
                  ScenarioRounded(o), NoDatacenter(ScenarioS1(o))} : o \in Orders }

VARIABLES
    conf,       \* the configuration the client built (never changes)
    phase,      \* "setup" before Simulation.run, "run" while env.run, then "done"
    now,        \* env.now, in grid steps
    queue,      \* the events scheduled in the environment
    nextEid,    \* simpy's event counter
    noise,      \* number of off-centre random draws so far
    ncap,       \* node -> base capacities cpu, ram, disk, bw
    nrunning,   \* node -> running
    nhist,      \* node -> the nine history lists
    crunning,   \* container -> running
    cusage,     \* container -> current_<dim>_usage
    cwmap,      \* container -> workload_requests: list of (receive time, list)
    chist,      \* container -> the five history lists
    wactive,    \* workload -> active
    whost,      \* workload -> container it was admitted to (0: none)    (history)
    wtime,      \* workload -> env.now at its admission                  (history)
    wadded,     \* workload -> <<quantities added at its activation>>     (history)
    wremoved,   \* workload -> <<quantities subtracted at deactivation>>  (history)
    cchecks,    \* container -> number of run steps that found it running (history)
    halted,     \* node -> it has been halted by Node.stop                 (history)
    haltLen,    \* container -> Len of its history at the halt of its node (history)
    last,       \* what the last step was                                  (history)
    lb,         \* the load balancer the client created: mode and placement steps
                \* (prev: the steps of an earlier load balancer)
    raised,     \* the error the last call of the client raised, if any
    ids         \* the id counters of the classes and the ids handed out

vars == <<conf, phase, now, queue, nextEid, noise, ncap, nrunning, nhist,
          crunning, cusage, cwmap, chist, wactive, whost, wtime, wadded,
          wremoved, cchecks, halted, haltLen, last, lb, raised, ids>>

\* the containers and the workload requests the client constructed
Containers == DOMAIN conf.csud
Workloads == DOMAIN conf.wl
\* the nodes of the data center: one node hosting all the containers, unless
\* the configuration says which containers each of its nodes hosts
Nodes == IF "hosts" \in DOMAIN conf THEN DOMAIN conf.hosts ELSE {1}
\* node.containers, in list order
ContainersOf(n) ==
    IF "hosts" \in DOMAIN conf THEN conf.hosts[n]
    ELSE [i \in 1..Len(conf.csud) |-> i]

WPct(w) == IF conf.jitter = "workload" THEN WorkloadPct ELSE NoPct
CPct(c) == IF conf.jitter = "container" THEN ContainerPct ELSE NoPct
NPct(n) == IF conf.jitter = "node" THEN NodePct ELSE NoPct
\* the workload request w as the code sees it
WL(w) == [type |-> conf.wl[w].type, base |-> conf.wl[w].base, pct |-> WPct(w),
          delay |-> conf.wl[w].delay, duration |-> conf.wl[w].duration]

\* no load balancer yet; no error raised
NoBalancer == [used |-> FALSE, mode |-> FALSE, steps |-> <<>>, prev |-> <<>>]
NoError == [error |-> "none", by |-> "", type |-> "", delay |-> 0]

NoStep == [kind |-> "none", who |-> 0, pid |-> -1, ran |-> FALSE,
           viol |-> FALSE, wasRunning |-> {}, nodeWasRunning |-> {}]

\* an event of the environment with the continuation of its process
Event(t, prio, eid, kind, who, pc, pid) ==
    [time |-> t, prio |-> prio, eid |-> eid, kind |-> kind, who |-> who,
     pc |-> pc, pid |-> pid]

\* env.process(gen): an Initialize event, URGENT, at the current time
Initialize(t, eid, kind, who) == Event(t, URGENT, eid, kind, who, "init", eid)

\* the run processes registered by the constructors, in construction order
Constructed(o) ==
    IF o = "cf"
    THEN { Initialize(0, c - 1, "crun", c) : c \in Containers }
         \cup { Initialize(0, Len(conf.csud) + n - 1, "nrun", n) : n \in Nodes }
    ELSE { Initialize(0, n - 1, "nrun", n) : n \in Nodes }
         \cup { Initialize(0, Cardinality(Nodes) + c - 1, "crun", c) :
                   c \in Containers }

EmptyCHist == [cpu |-> <<>>, ram |-> <<>>, disk |-> <<>>, bw |-> <<>>, time |-> <<>>]
EmptyNHist == [cpu |-> <<>>, ram |-> <<>>, disk |-> <<>>, bw |-> <<>>,
               acpu |-> <<>>, aram |-> <<>>, adisk |-> <<>>, abw |-> <<>>,
               time |-> <<>>]

\* the classes with an id counter of their own
Classes == {"workload", "container", "node"}

\* the first n instances of a class, as the constructors number them
MadeOf(cls, n) == [i \in 1..n |-> [cls |-> cls, id |-> i - 1]]

\* the counters and the ids after the client has constructed its entities
Registered ==
    [ next |-> [workload |-> Len(conf.wl), container |-> Len(conf.csud),
                node |-> Cardinality(Nodes)],
      made |-> (IF conf.order = "cf"
                THEN MadeOf("container", Len(conf.csud))
                     \o MadeOf("node", Cardinality(Nodes))
                ELSE MadeOf("node", Cardinality(Nodes))
                     \o MadeOf("container", Len(conf.csud)))
               \o MadeOf("workload", Len(conf.wl)) ]

\* the state after the client has constructed the entities of one of the
\* configurations cfs
Built(cfs) ==
    /\ conf \in cfs
    /\ phase = "setup"
    /\ now = 0
    /\ queue = Constructed(conf.order)
    /\ nextEid = Len(conf.csud) + Cardinality(Nodes)
    /\ noise = 0
    /\ ncap = [n \in Nodes |-> conf.ncap]
    /\ nrunning = [n \in Nodes |-> FALSE]
    /\ nhist = [n \in Nodes |-> EmptyNHist]
    /\ crunning = [c \in Containers |-> FALSE]
    /\ cusage = [c \in Containers |-> Zero4]
    /\ cwmap = [c \in Containers |-> <<>>]
    /\ chist = [c \in Containers |-> EmptyCHist]
    /\ wactive = [w \in Workloads |-> FALSE]
    /\ whost = [w \in Workloads |-> 0]
    /\ wtime = [w \in Workloads |-> 0]
    /\ wadded = [w \in Workloads |-> <<>>]
    /\ wremoved = [w \in Workloads |-> <<>>]
    /\ cchecks = [c \in Containers |-> 0]
    /\ halted = [n \in Nodes |-> FALSE]
    /\ haltLen = [c \in Containers |-> 0]
    /\ last = NoStep
    /\ lb = NoBalancer
    /\ raised = NoError
    /\ ids = Registered

Init == Built(Configs)

\* --------------------------------------------------------- the event queue
\* simpy orders the events by (time, priority, eid)
Before(e, f) ==
    \/ e.time < f.time
    \/ e.time = f.time /\ e.prio < f.prio
    \/ e.time = f.time /\ e.prio = f.prio /\ e.eid < f.eid

\* the event env.step() pops next
NextEvent == CHOOSE e \in queue : \A f \in queue \ {e} : Before(e, f)

\* mutant: the timeout fires one step after its delay
TimeoutLate(t, delay, eid, kind, who, pc, pid) ==
    Event(t + delay + 1, NORMAL, eid, kind, who, pc, pid)

\* env.timeout(delay): a Timeout event, NORMAL, delay time units from t
Timeout(t, delay, eid, kind, who, pc, pid) ==
    Event(t + delay, NORMAL, eid, kind, who, pc, pid)

Step(e, ran, viol) ==
    [kind |-> e.kind, who |-> e.who, pid |-> e.pid, ran |-> ran, viol |-> viol,
     wasRunning |-> {c \in Containers : crunning[c]},
     nodeWasRunning |-> {n \in Nodes : nrunning[n]}]

\* ------------------------------------------------------------- Container
\* is w in one of the lists of workload_requests
InMap(m, w) == \E i \in 1..Len(m) : \E j \in 1..Len(m[i].ws) : m[i].ws[j] = w

\* mutant: the request is added without looking for a duplicate
AddWorkloadRequestUnchecked(m, t, w) ==
    IF \E i \in 1..Len(m) : m[i].t = t
    THEN [i \in 1..Len(m) |->
            IF m[i].t = t THEN [m[i] EXCEPT !.ws = Append(@, w)] ELSE m[i]]
    ELSE Append(m, [t |-> t, ws |-> <<w>>])

\* Container.add_workload_request at time t
AddWorkloadRequest(m, t, w) ==
    IF InMap(m, w) THEN m
    ELSE IF \E i \in 1..Len(m) : m[i].t = t
    THEN [i \in 1..Len(m) |->
            IF m[i].t = t THEN [m[i] EXCEPT !.ws = Append(@, w)] ELSE m[i]]
    ELSE Append(m, [t |-> t, ws |-> <<w>>])

\* the (receive_time, workload) pairs in the order Container.run visits them
RECURSIVE Pairs(_)
Pairs(m) ==
    IF m = <<>> THEN <<>>
    ELSE [j \in 1..Len(m[1].ws) |-> <<m[1].t, m[1].ws[j]>>] \o Pairs(Tail(m))

\* mutant: the workload is started without waiting for its delay
ShouldActivateAtOnce(start_time, end_time, t, active) ==
    t < end_time /\ ~active

\* Container.run: the conditions of the two branches that switch a workload
ShouldActivate(start_time, end_time, t, active) ==
    start_time <= t /\ t < end_time /\ ~active

\* mutant: the workload is stopped only after its end time has passed
ShouldDeactivateLate(end_time, t, active) == t > end_time /\ active

ShouldDeactivate(end_time, t, active) == t >= end_time /\ active

\* Container.run, the body of the loop over the workload requests, for the
\* request w received at rt, at time t.  st: the usage, the active flags and
\* the completed workloads so far.  The result is the set of possible outcomes.
UpdateWorkload(st, t, rt, w) ==
    LET wl == WL(w)
        start_time == rt + wl.delay
        end_time == start_time + wl.duration
        left == MaxNoise - st.noise
    IN  IF ShouldActivate(start_time, end_time, t, st.act[w])
        THEN { [st EXCEPT !.u = AddVec(@, v), !.act[w] = TRUE,
                          !.added[w] = <<v>>, !.removed[w] = <<>>,
                          !.noise = @ + NoiseCost(v, wl.base)] :
                 v \in CurrentWorkload(wl, left) }
        ELSE IF ShouldDeactivate(end_time, t, st.act[w])
        THEN { [st EXCEPT !.u = SubVec(@, v), !.act[w] = FALSE,
                          !.removed[w] = <<v>>, !.completed = @ \cup {w},
                          !.noise = @ + NoiseCost(v, wl.base)] :
                 v \in CurrentWorkload(wl, left) }
        ELSE { [st EXCEPT !.u = AddVec(@, v),
                          !.noise = @ + NoiseCost(v, Zero4)] :
                 v \in CurrentFluctuation(wl, left) }

RECURSIVE UpdateWorkloads(_, _, _)
UpdateWorkloads(S, t, pairs) ==
    IF pairs = <<>> THEN S
    ELSE UpdateWorkloads(
            UNION { UpdateWorkload(st, t, pairs[1][1], pairs[1][2]) : st \in S },
            t, Tail(pairs))

\* mutant: the completed workloads are removed, the empty keys are kept
RECURSIVE RemoveCompletedKeepingKeys(_, _)
RemoveCompletedKeepingKeys(m, completed) ==
    IF m = <<>> THEN <<>>
    ELSE LET Keep(w) == w \notin completed
         IN <<[t |-> m[1].t, ws |-> SelectSeq(m[1].ws, Keep)]>>
            \o RemoveCompletedKeepingKeys(Tail(m), completed)

\* list.remove: the first occurrence of each completed workload goes
RECURSIVE RemoveFirst(_, _)
RemoveFirst(ws, completed) ==
    IF ws = <<>> THEN <<>>
    ELSE IF Head(ws) \in completed
         THEN RemoveFirst(Tail(ws), completed \ {Head(ws)})
         ELSE <<Head(ws)>> \o RemoveFirst(Tail(ws), completed)

\* Container.run: remove the completed workloads, delete the empty keys
RECURSIVE RemoveCompleted(_, _)
RemoveCompleted(m, completed) ==
    IF m = <<>> THEN <<>>
    ELSE LET ws == RemoveFirst(m[1].ws, completed)
         IN (IF ws = <<>> THEN <<>> ELSE <<[t |-> m[1].t, ws |-> ws]>>)
            \o RemoveCompleted(Tail(m), completed)

\* Container.add_base_fluctuation
ContainerAddBaseFluctuation(c, st) ==
    { [st EXCEPT !.u = AddVec(@, v), !.noise = @ + NoiseCost(v, Zero4)] :
        v \in BaseFluctuation(conf.ccap[c], CPct(c), MaxNoise - st.noise) }

\* mutant: the usages are not clamped
ContainerPreventNothing(u) == u

\* Container.prevent_resources
ContainerPreventResources(u) == [d \in Dims |-> Max(0, u[d])]

\* Container.store_history and Node.store_history: one append per list
Record(h, field, x) == [h EXCEPT ![field] = Append(@, x)]

ContainerStoreHistory(h, u, t) ==
    Record(Record(Record(Record(Record(h, "cpu", u.cpu), "ram", u.ram),
                         "disk", u.disk), "bw", u.bw), "time", t)

\* mutant: the update is not guarded by the running flag
ContainerRunUpdatesAlways(c) == TRUE

\* does Container.run update the container at this step (if self.running)
ContainerRunUpdates(c) == crunning[c]

\* Container.run: where the process continues after this step
ContainerRunNextPc(c, pc) ==
    IF pc \in {"init", "top"} /\ ~crunning[c] THEN "mid" ELSE "top"

\* the possible outcomes of one update of container c at time t
UpdateOutcomes(c, t) ==
    LET st0 == [u |-> cusage[c], act |-> wactive, added |-> wadded,
                removed |-> wremoved, completed |-> {}, noise |-> noise]
        S1 == UpdateWorkloads({st0}, t, Pairs(cwmap[c]))
        S2 == UNION { ContainerAddBaseFluctuation(c, st) : st \in S1 }
    IN { [st EXCEPT !.u = ContainerPreventResources(@)] : st \in S2 }

\* Container.stop, the loop over the workloads: w is deactivated if active
StopWorkload(st, w) ==
    IF st.act[w]
    THEN { [st EXCEPT !.act[w] = FALSE, !.removed[w] = <<v>>,
                      !.u = SubVec(@, v),
                      !.noise = @ + NoiseCost(v, WL(w).base)] :
             v \in CurrentWorkload(WL(w), MaxNoise - st.noise) }
    ELSE {st}

RECURSIVE StopWorkloads(_, _)
StopWorkloads(S, pairs) ==
    IF pairs = <<>> THEN S
    ELSE StopWorkloads(UNION { StopWorkload(st, pairs[1][2]) : st \in S },
                       Tail(pairs))

\* mutant: the usages are not reset after the workloads were subtracted
ContainerStopWithoutReset(wd, c) ==
    IF ~wd.run[c] THEN {wd}
    ELSE LET st0 == [u |-> wd.u[c], act |-> wd.act, removed |-> wd.removed,
                     noise |-> wd.noise]
         IN { [wd EXCEPT !.run[c] = FALSE, !.u[c] = st.u, !.act = st.act,
                         !.removed = st.removed, !.noise = st.noise] :
                st \in StopWorkloads({st0}, Pairs(cwmap[c])) }

\* Container.stop on container c in the world wd (running flags, usages,
\* active flags of all containers and workloads): the possible outcomes
ContainerStop(wd, c) ==
    IF ~wd.run[c] THEN {wd}
    ELSE LET st0 == [u |-> wd.u[c], act |-> wd.act, removed |-> wd.removed,
                     noise |-> wd.noise]
         IN { [wd EXCEPT !.run[c] = FALSE, !.u[c] = Zero4, !.act = st.act,
                         !.removed = st.removed, !.noise = st.noise] :
                st \in StopWorkloads({st0}, Pairs(cwmap[c])) }

\* ------------------------------------------------------------------ Node
\* sum(c.current_<dim>_usage for c in self._containers)
RECURSIVE SumUsage(_, _, _)
SumUsage(u, cs, d) ==
    IF cs = <<>> THEN 0
    ELSE Plus(d, SumUsage(u, SubSeq(cs, 1, Len(cs) - 1), d), u[Last(cs)][d])

TotalUsage(n) == [d \in Dims |-> SumUsage(cusage, ContainersOf(n), d)]

AvailField(d) == CASE d = "cpu" -> "acpu" [] d = "ram" -> "aram"
                   [] d = "disk" -> "adisk" [] d = "bw" -> "abw"

\* mutant: an upward draw is not cut back to the base capacity
NodeEnvelopeUnclamped(cap, f) ==
    [d \in Dims |-> Max(0, Plus(d, cap[d], f[d]))]

\* Node.add_base_fluctuation: the envelope for the draws f
NodeEnvelope(cap, f) ==
    [d \in Dims |-> Max(0, Min(cap[d], Plus(d, cap[d], f[d])))]

NodeAddBaseFluctuation(h, cap, f) ==
    LET a == NodeEnvelope(cap, f)
    IN Record(Record(Record(Record(h, "acpu", a.cpu), "aram", a.ram),
                     "adisk", a.disk), "abw", a.bw)

\* mutant: the tick uses up one unit of every base capacity
NodePreventResourcesLowering(cap) == [d \in Dims |-> Max(1, cap[d]) - 1]

\* Node.prevent_resources
NodePreventResources(cap) == [d \in Dims |-> Max(0, cap[d])]

\* mutant: the bandwidth usage is not recorded
NodeStoreHistoryWithoutBw(h, total, t) ==
    Record(Record(Record(Record(h, "cpu", total.cpu), "ram", total.ram),
                  "disk", total.disk), "time", t)

\* Node.store_history
NodeStoreHistory(h, total, t) ==
    Record(Record(Record(Record(Record(h, "cpu", total.cpu), "ram", total.ram),
                         "disk", total.disk), "bw", total.bw), "time", t)

\* Node.available_<dim>: the last envelope (the base if none was recorded)
\* minus the summed usage of the containers, not below 0
NodeAvailable(h, cap, total, d) ==
    LET a == h[AvailField(d)]
    IN Max(0, Plus(d, (IF a # <<>> THEN Last(a) ELSE cap[d]), -total[d]))

\* mutant: the check also raises when the base capacities of the containers
\* sum to more than the base capacity of the node
CheckResourcesRaisesOnCapacity(h, cap, total) ==
    \/ \E d \in Dims : total[d] > NodeAvailable(h, cap, total, d)
    \/ \E d \in Dims :
          SumUsage(conf.ccap, [i \in 1..Len(conf.ccap) |-> i], d) > cap[d]

\* mutant: the check also raises when a container uses more than its capacity
CheckResourcesRaisesOnContainers(h, cap, total) ==
    \/ \E d \in Dims : total[d] > NodeAvailable(h, cap, total, d)
    \/ \E c \in Containers : \E d \in Dims : cusage[c][d] > conf.ccap[c][d]

\* Node.check_resources: does it raise InsufficientResourcesError
CheckResourcesRaises(h, cap, total) ==
    \E d \in Dims : total[d] > NodeAvailable(h, cap, total, d)

\* Node.stop, the loop over the containers of the node
RECURSIVE StopContainers(_, _)
StopContainers(S, cs) ==
    IF cs = <<>> THEN S
    ELSE StopContainers(UNION { ContainerStop(wd, cs[1]) : wd \in S }, Tail(cs))

\* mutant: Node.stop shuts the node down whatever stop_lack_of_resource is
NodeStopsAlways(n) == TRUE

\* does Node.stop shut the node down
NodeStops(n) == conf.stopLack

\* mutant: the node is shut down without stopping its containers
NodeStopLeavesContainers(n) ==
    {[run |-> crunning, u |-> cusage, act |-> wactive, removed |-> wremoved,
      noise |-> noise]}

\* mutant: Node.stop stops the containers of every node
NodeStopEveryContainer(n) ==
    LET wd0 == [run |-> crunning, u |-> cusage, act |-> wactive,
                removed |-> wremoved, noise |-> noise]
    IN IF NodeStops(n)
       THEN StopContainers({wd0}, [i \in 1..Len(conf.csud) |-> i])
       ELSE {wd0}

\* Node.stop on node n: the possible outcomes for its containers
NodeStop(n) ==
    LET wd0 == [run |-> crunning, u |-> cusage, act |-> wactive,
                removed |-> wremoved, noise |-> noise]
    IN IF NodeStops(n) THEN StopContainers({wd0}, ContainersOf(n)) ELSE {wd0}

\* --------------------------------------------------------- load balancer
\* mutant: the demand of the workloads in the map counts as used
ContainerAvailableLessAdmitted(c) ==
    [d \in Dims |->
        Max(0, Plus(d, conf.ccap[c][d],
                    -(IF cwmap[c] = <<>> THEN cusage[c][d] ELSE conf.ccap[c][d])))]

\* Container.available_<dim>: the capacity less the current usage, not below 0
ContainerAvailable(c) ==
    [d \in Dims |-> Max(0, Plus(d, conf.ccap[c][d], -cusage[c][d]))]

\* mutant: a demand equal to what is available does not fit
IsSuitableRunnerStrict(w, c) ==
    \A d \in Dims : WL(w).base[d] < ContainerAvailable(c)[d]

\* mutant: a container that holds a workload already is not suitable
IsSuitableRunnerWhenEmpty(w, c) ==
    /\ cwmap[c] = <<>>
    /\ \A d \in Dims : WL(w).base[d] <= ContainerAvailable(c)[d]

\* is_suitable_runner: the workload fits the resources available right now
IsSuitableRunner(w, c) ==
    \A d \in Dims : WL(w).base[d] <= ContainerAvailable(c)[d]

\* range(int(start_time), int(end_time) + 1) with start_time = delay and
\* end_time = delay + duration
ForecastTicks(w) ==
    (WL(w).delay \div TU) .. ((WL(w).delay + WL(w).duration) \div TU)

\* the ticks the forecast of a batch can have an entry for
LastTick ==
    LET ends == {(WL(w).delay + WL(w).duration) \div TU : w \in Workloads}
    IN CHOOSE m \in ends : \A e \in ends : e <= m
ForecastDomain == 0..LastTick

\* forecast[execution_unit].get(time, {}).get(<dim>, 0) for the four
\* dimensions.  A tick without an entry reads as 0 and an entry is created
\* with 0, so the dict of a container is kept as a function of all ticks.
ForecastAt(F, c, t) == IF t \in ForecastDomain THEN F[c][t] ELSE Zero4

\* the forecast of a new load balancer: an empty dict for every container
EmptyForecast == [c \in Containers |-> [t \in ForecastDomain |-> Zero4]]

\* mutant: the forecast test looks at the cpu only
CanAccommodateCpuOnly(useRes, F, c, w) ==
    IF ~useRes THEN IsSuitableRunner(w, c)
    ELSE \A t \in ForecastTicks(w) :
            ~ (Plus("cpu", ForecastAt(F, c, t).cpu, WL(w).base.cpu) > conf.ccap[c].cpu)

\* can_accommodate_workload
CanAccommodateWorkload(useRes, F, c, w) ==
    IF ~useRes THEN IsSuitableRunner(w, c)
    ELSE \A t \in ForecastTicks(w) :
            ~ \E d \in Dims :
                Plus(d, ForecastAt(F, c, t)[d], WL(w).base[d]) > conf.ccap[c][d]

\* mutant: the last tick of the window is not reserved
UpdateForecastHalfOpen(useRes, F, c, w) ==
    IF ~useRes THEN F
    ELSE [x \in Containers |->
            [t \in ForecastDomain |->
                IF x = c /\ t \in ForecastTicks(w)
                         /\ t < (WL(w).delay + WL(w).duration) \div TU
                THEN AddVec(ForecastAt(F, x, t), WL(w).base)
                ELSE F[x][t]]]

\* update_forecast
UpdateForecast(useRes, F, c, w) ==
    IF ~useRes THEN F
    ELSE [x \in Containers |->
            [t \in ForecastDomain |->
                IF x = c /\ t \in ForecastTicks(w)
                THEN AddVec(ForecastAt(F, x, t), WL(w).base)
                ELSE F[x][t]]]

\* mutant: the workload is attached under the key 0
AttachWorkloadAtZero(m, t, w) ==
    IF \E i \in 1..Len(m) : m[i].t = 0
    THEN [i \in 1..Len(m) |->
            IF m[i].t = 0 THEN [m[i] EXCEPT !.ws = Append(@, w)] ELSE m[i]]
    ELSE Append(m, [t |-> 0, ws |-> <<w>>])

\* assign_workload_req_to_container: the workload is attached under the key
\* env.now without looking for a duplicate
AttachWorkload(m, t, w) ==
    IF \E i \in 1..Len(m) : m[i].t = t
    THEN [i \in 1..Len(m) |->
            IF m[i].t = t THEN [m[i] EXCEPT !.ws = Append(@, w)] ELSE m[i]]
    ELSE Append(m, [t |-> t, ws |-> <<w>>])

\* mutant: a workload that fits nowhere goes to the last container
FirstContainerOrLast(useRes, F, w) ==
    LET fit == {c \in Containers : CanAccommodateWorkload(useRes, F, c, w)}
    IN IF fit = {} THEN Len(conf.csud) ELSE CHOOSE c \in fit : \A x \in fit : c <= x

\* the first container of the list that can accommodate w (0: none)
FirstContainer(useRes, F, w) ==
    LET fit == {c \in Containers : CanAccommodateWorkload(useRes, F, c, w)}
    IN IF fit = {} THEN 0 ELSE CHOOSE c \in fit : \A x \in fit : c <= x

\* mutant: after a workload that fits nowhere the loop goes on
RECURSIVE AssignWorkloadReqsSkipping(_, _, _)
AssignWorkloadReqsSkipping(useRes, st, ws) ==
    IF ws = <<>> THEN st
    ELSE LET w == Head(ws)
             c == FirstContainer(useRes, st.F, w)
         IN IF c = 0
            THEN AssignWorkloadReqsSkipping(useRes,
                    [st EXCEPT
                        !.steps = Append(@, [w |-> w, c |-> 0, F |-> st.F]),
                        !.error = [error |-> "RuntimeError", by |-> "load balancer",
                                   type |-> WL(w).type, delay |-> WL(w).delay]],
                    Tail(ws))
            ELSE LET F1 == UpdateForecast(useRes, st.F, c, w)
                 IN AssignWorkloadReqsSkipping(useRes,
                        [st EXCEPT
                            !.F = F1,
                            !.map[c] = AttachWorkload(st.map[c], now, w),
                            !.steps = Append(@, [w |-> w, c |-> c, F |-> F1])],
                        Tail(ws))

\* assign_workload_req_to_container, the loop over the workload requests ws.
\* st: the forecast, the workload maps, the steps made and the error raised.
\* A step records the workload, the container chosen and the forecast after it.
RECURSIVE AssignWorkloadReqs(_, _, _)
AssignWorkloadReqs(useRes, st, ws) ==
    IF ws = <<>> THEN st
    ELSE LET w == Head(ws)
             c == FirstContainer(useRes, st.F, w)
         IN IF c = 0
            THEN [st EXCEPT
                    !.steps = Append(@, [w |-> w, c |-> 0, F |-> st.F]),
                    !.error = [error |-> "RuntimeError", by |-> "load balancer",
                               type |-> WL(w).type, delay |-> WL(w).delay]]
            ELSE LET F1 == UpdateForecast(useRes, st.F, c, w)
                 IN AssignWorkloadReqs(useRes,
                        [st EXCEPT
                            !.F = F1,
                            !.map[c] = AttachWorkload(st.map[c], now, w),
                            !.steps = Append(@, [w |-> w, c |-> c, F |-> F1])],
                        Tail(ws))

\* ---------------------------------------------------------------- actions
\* one call c.add_workload_request(w) of the client (the requests are first
\* admitted in the order of their ids, and a request is handed to one
\* container only)
AddWorkloadCall(w, c) ==
    /\ whost[w] \in {0, c}
    /\ \A v \in Workloads : v < w => whost[v] # 0
    /\ cwmap' = [cwmap EXCEPT ![c] = AddWorkloadRequest(cwmap[c], now, w)]
    /\ whost' = [whost EXCEPT ![w] = c]
    /\ wtime' = [wtime EXCEPT ![w] = IF InMap(cwmap[c], w) THEN @ ELSE now]
    /\ last' = [NoStep EXCEPT !.kind = "add", !.who = c, !.pid = w,
                              !.ran = ~InMap(cwmap[c], w)]
    /\ UNCHANGED <<conf, ids, lb, raised, phase, now, queue, nextEid, noise, ncap, nrunning, nhist,
                   crunning, cusage, chist, wactive, wadded, wremoved, cchecks,
                   halted, haltLen>>

\* the client calls c.add_workload_request(w) before the run
AddWorkload(w, c) == phase = "setup" /\ AddWorkloadCall(w, c)

\* the client calls c.add_workload_request(w) again after the run, for a
\* request the container still holds
AddWorkloadAfterRun(w, c) ==
    phase = "done" /\ InMap(cwmap[c], w) /\ AddWorkloadCall(w, c)

\* the workload requests from `first` on, in the order of their construction
BatchFrom(first) == [i \in 1..(Len(conf.wl) - first + 1) |-> first - 1 + i]

\* FirstFitReservationContainerLoadBalancer(workload_reqs, containers,
\* use_reservations): the client hands all its workload requests, in the
\* order of their construction, and all its containers to a load balancer,
\* whose constructor assigns them
AssignWorkloadReqToContainer(useRes) ==
    /\ phase = "setup"
    /\ ~lb.used
    /\ \A w \in Workloads : whost[w] = 0
    /\ LET st0 == [F |-> EmptyForecast, map |-> cwmap, steps |-> <<>>,
                   error |-> NoError]
           placed == {AssignWorkloadReqs(useRes, st0, [i \in 1..Len(conf.wl) |-> i])}
       IN \E st \in placed :
          /\ cwmap' = st.map
          /\ lb' = [used |-> TRUE, mode |-> useRes, steps |-> st.steps,
                    prev |-> <<>>]
          /\ raised' = st.error
          /\ whost' = [w \in Workloads |->
                          IF \E k \in 1..Len(st.steps) : st.steps[k].w = w
                          THEN LET k == CHOOSE k \in 1..Len(st.steps) :
                                           st.steps[k].w = w
                               IN st.steps[k].c
                          ELSE 0]
          /\ wtime' = [w \in Workloads |-> now]
    /\ last' = [NoStep EXCEPT !.kind = "lb"]
    /\ UNCHANGED <<conf, ids, phase, now, queue, nextEid, noise, ncap, nrunning, nhist,
                   crunning, cusage, chist, wactive, wadded, wremoved, cchecks,
                   halted, haltLen>>

\* the client hands its workload requests from `first` on, in the order of
\* their construction, and all its containers to its first load balancer
AssignWorkloadReqsFrom(useRes, first) ==
    /\ ~lb.used
    /\ LET st0 == [F |-> EmptyForecast, map |-> cwmap, steps |-> <<>>,
                   error |-> NoError]
           placed == {AssignWorkloadReqs(useRes, st0, BatchFrom(first))}
       IN \E st \in placed :
          /\ cwmap' = st.map
          /\ lb' = [used |-> TRUE, mode |-> useRes, steps |-> st.steps,
                    prev |-> <<>>]
          /\ raised' = st.error
          /\ whost' = [w \in Workloads |->
                          IF \E k \in 1..Len(st.steps) : st.steps[k].w = w
                          THEN LET k == CHOOSE k \in 1..Len(st.steps) :
                                           st.steps[k].w = w
                               IN st.steps[k].c
                          ELSE whost[w]]
          /\ wtime' = [w \in Workloads |->
                          IF \E k \in 1..Len(st.steps) : st.steps[k].w = w
                          THEN now ELSE wtime[w]]
    /\ last' = [NoStep EXCEPT !.kind = "lb"]
    /\ UNCHANGED <<conf, ids, phase, now, queue, nextEid, noise, ncap, nrunning, nhist,
                   crunning, cusage, chist, wactive, wadded, wremoved, cchecks,
                   halted, haltLen>>

\* setup_simulation: the containers hold the workload requests the client
\* admitted itself (_create_container) when the load balancer is created
\* and is given the workload requests the client has not admitted
AssignNewWorkloadReqsToContainer(useRes) ==
    /\ phase = "setup"
    /\ \E w \in Workloads : whost[w] # 0
    /\ \E first \in Workloads :
          /\ whost[first] = 0 /\ \A v \in Workloads : v < first => whost[v] # 0
          /\ AssignWorkloadReqsFrom(useRes, first)

\* the client hands the workload requests of the run to a load balancer
\* after the run, at the engine time the run ended at
AssignWorkloadReqsAfterRun(useRes) ==
    phase = "done" /\ AssignWorkloadReqsFrom(useRes, 1)

\* the client that handed all its workload requests to a load balancer
\* creates a second load balancer with the arguments of the first
AssignWorkloadReqToContainerAgain ==
    /\ phase = "setup"
    /\ lb.used /\ lb.prev = <<>> /\ lb.steps[1].w = 1
    /\ LET st0 == [F |-> EmptyForecast, map |-> cwmap, steps |-> <<>>,
                   error |-> NoError]
           placed == {AssignWorkloadReqs(lb.mode, st0, BatchFrom(1))}
       IN \E st \in placed :
          /\ cwmap' = st.map
          /\ lb' = [lb EXCEPT !.prev = lb.steps, !.steps = st.steps]
          /\ raised' = st.error
          /\ whost' = [w \in Workloads |->
                          IF \E k \in 1..Len(st.steps) :
                                st.steps[k].w = w /\ st.steps[k].c # 0
                          THEN LET k == CHOOSE k \in 1..Len(st.steps) :
                                           st.steps[k].w = w
                               IN st.steps[k].c
                          ELSE whost[w]]
          /\ wtime' = [w \in Workloads |-> now]
    /\ last' = [NoStep EXCEPT !.kind = "lb"]
    /\ UNCHANGED <<conf, ids, phase, now, queue, nextEid, noise, ncap, nrunning, nhist,
                   crunning, cusage, chist, wactive, wadded, wremoved, cchecks,
                   halted, haltLen>>

\* mutant: the classes share one id counter
NewIdShared(cls) == Len(ids.made)

\* self.id = <Class>._id
NewId(cls) == ids.next[cls]

\* the client constructs a workload request, a container or a node: the
\* constructor takes the counter of its class as id and increments it
Create(cls) ==
    /\ phase = "setup"
    /\ Len(ids.made) < MaxCreated
    /\ ids' = [next |-> [ids.next EXCEPT ![cls] = @ + 1],
               made |-> Append(ids.made, [cls |-> cls, id |-> NewId(cls)])]
    /\ UNCHANGED <<conf, phase, now, queue, nextEid, noise, ncap, nrunning,
                   nhist, crunning, cusage, cwmap, chist, wactive, whost, wtime,
                   wadded, wremoved, cchecks, halted, haltLen, last, lb, raised>>

\* mutant: Simulation.run does not look for the data center
DatacenterNeverMissing == FALSE

\* Simulation.run: is the data center missing (none passed, none attached)
DatacenterMissing == ~conf.dc

\* Simulation.run (the client has admitted all its workloads): without a data
\* center it raises; otherwise it registers start and monitor of every node
\* and runs the environment
SimulationRun ==
    /\ phase = "setup"
    /\ \A w \in Workloads : whost[w] # 0
    /\ IF DatacenterMissing
       THEN /\ raised' = [error |-> "RuntimeError", by |-> "Simulation.run",
                          type |-> "", delay |-> 0]
            /\ last' = [NoStep EXCEPT !.kind = "run"]
            /\ UNCHANGED <<phase, queue, nextEid>>
       ELSE /\ phase' = "run"
            /\ queue' = queue \cup
                  { Initialize(now, nextEid + 2 * (n - 1), "nstart", n) :
                      n \in Nodes }
                  \cup { Initialize(now, nextEid + 2 * (n - 1) + 1, "nmon", n) :
                           n \in Nodes }
                  \cup { Event(conf.horizon, URGENT,
                                nextEid + 2 * Cardinality(Nodes), "until", 0,
                                "init", nextEid + 2 * Cardinality(Nodes)) }
            /\ nextEid' = nextEid + 2 * Cardinality(Nodes) + 1
            /\ UNCHANGED <<raised, last>>
    /\ UNCHANGED <<conf, ids, lb, now, noise, ncap, nrunning, nhist, crunning, cusage,
                   cwmap, chist, wactive, whost, wtime, wadded, wremoved, cchecks,
                   halted, haltLen>>

\* Container.run, one resumption
ContainerRun ==
    /\ phase = "run"
    /\ LET e == NextEvent
           c == e.who
       IN /\ e.kind = "crun"
          /\ now' = e.time
          /\ queue' = (queue \ {e}) \cup
                { Timeout(e.time, ContainerTick * TU, nextEid, "crun", c,
                          ContainerRunNextPc(c, e.pc), e.pid) }
          /\ nextEid' = nextEid + 1
          /\ cchecks' = [cchecks EXCEPT ![c] = @ + (IF crunning[c] THEN 1 ELSE 0)]
          /\ last' = Step(e, ContainerRunUpdates(c), FALSE)
          /\ IF ContainerRunUpdates(c)
             THEN \E st \in UpdateOutcomes(c, e.time) :
                    /\ cusage' = [cusage EXCEPT ![c] = st.u]
                    /\ wactive' = st.act
                    /\ wadded' = st.added
                    /\ wremoved' = st.removed
                    /\ noise' = st.noise
                    /\ cwmap' = [cwmap EXCEPT ![c] = RemoveCompleted(@, st.completed)]
                    /\ chist' = [chist EXCEPT ![c] = ContainerStoreHistory(@, st.u, e.time)]
             ELSE UNCHANGED <<cusage, wactive, wadded, wremoved, noise, cwmap, chist>>
          /\ UNCHANGED <<conf, ids, lb, raised, phase, ncap, nrunning, nhist, crunning, whost, wtime,
                         halted, haltLen>>

\* Container.start, one resumption
ContainerStart ==
    /\ phase = "run"
    /\ LET e == NextEvent
           c == e.who
       IN /\ e.kind = "cstart"
          /\ now' = e.time
          /\ last' = Step(e, e.pc = "wake", FALSE)
          /\ IF e.pc = "init"
             THEN /\ queue' = (queue \ {e}) \cup
                        { Timeout(e.time, conf.csud[c], nextEid, "cstart", c, "wake", e.pid) }
                  /\ nextEid' = nextEid + 1
                  /\ UNCHANGED crunning
             ELSE /\ queue' = queue \ {e}
                  /\ crunning' = [crunning EXCEPT ![c] = TRUE]
                  /\ UNCHANGED nextEid
          /\ UNCHANGED <<conf, ids, lb, raised, phase, noise, ncap, nrunning, nhist, cusage, cwmap,
                         chist, wactive, whost, wtime, wadded, wremoved, cchecks, halted,
                         haltLen>>

\* Node.run, one resumption
NodeRun ==
    /\ phase = "run"
    /\ LET e == NextEvent
           n == e.who
       IN /\ e.kind = "nrun"
          /\ now' = e.time
          /\ last' = Step(e, nrunning[n], FALSE)
          /\ IF nrunning[n]
             THEN /\ queue' = (queue \ {e}) \cup
                        { Initialize(e.time, nextEid, "nmon", n),
                          Timeout(e.time, NodeRunPeriod * TU, nextEid + 1, "nrun", n,
                                  "loop", e.pid) }
                  /\ nextEid' = nextEid + 2
             ELSE /\ queue' = (queue \ {e}) \cup
                        { Timeout(e.time, NodeRunPeriod * TU, nextEid, "nrun", n,
                                  "loop", e.pid) }
                  /\ nextEid' = nextEid + 1
          /\ UNCHANGED <<conf, ids, lb, raised, phase, noise, ncap, nrunning, nhist, crunning, cusage,
                         cwmap, chist, wactive, whost, wtime, wadded, wremoved, cchecks,
                         halted, haltLen>>

\* Node.start, one resumption
NodeStart ==
    /\ phase = "run"
    /\ LET e == NextEvent
           n == e.who
           cs == ContainersOf(n)
       IN /\ e.kind = "nstart"
          /\ now' = e.time
          /\ last' = Step(e, e.pc = "wake", FALSE)
          /\ IF e.pc = "init"
             THEN /\ IF CheckResourcesRaises(nhist[n], ncap[n], TotalUsage(n))
                     THEN queue' = queue \ {e} /\ UNCHANGED nextEid
                     ELSE /\ queue' = (queue \ {e}) \cup
                               { Timeout(e.time, conf.nsud, nextEid, "nstart", n,
                                         "wake", e.pid) }
                          /\ nextEid' = nextEid + 1
                  /\ UNCHANGED nrunning
             ELSE /\ nrunning' = [nrunning EXCEPT ![n] = TRUE]
                  /\ queue' = (queue \ {e}) \cup
                        { Initialize(e.time, nextEid + i - 1, "cstart", cs[i]) :
                            i \in 1..Len(cs) }
                  /\ nextEid' = nextEid + Len(cs)
          /\ UNCHANGED <<conf, ids, lb, raised, phase, noise, ncap, nhist, crunning, cusage, cwmap,
                         chist, wactive, whost, wtime, wadded, wremoved, cchecks, halted,
                         haltLen>>

\* Node.monitor, one resumption
NodeMonitor ==
    /\ phase = "run"
    /\ LET e == NextEvent
           n == e.who
           total == TotalUsage(n)
       IN /\ e.kind = "nmon"
          /\ now' = e.time
          /\ \E f \in BaseFluctuation(ncap[n], NPct(n), MaxNoise - noise) :
               LET h1 == NodeAddBaseFluctuation(nhist[n], ncap[n], f)
                   cap1 == NodePreventResources(ncap[n])
                   h2 == NodeStoreHistory(h1, total, e.time)
                   raises == CheckResourcesRaises(h2, cap1, total)
                   n1 == noise + NoiseCost(f, Zero4)
               IN /\ nhist' = [nhist EXCEPT ![n] = h2]
                  /\ ncap' = [ncap EXCEPT ![n] = cap1]
                  /\ last' = Step(e, TRUE, raises)
                  /\ IF raises
                     THEN /\ queue' = queue \ {e}
                          /\ UNCHANGED nextEid
                          /\ \E wd \in { [x EXCEPT !.noise = @ + NoiseCost(f, Zero4)] :
                                           x \in NodeStop(n) } :
                               /\ crunning' = wd.run
                               /\ cusage' = wd.u
                               /\ wactive' = wd.act
                               /\ wremoved' = wd.removed
                               /\ noise' = wd.noise
                          /\ nrunning' = [nrunning EXCEPT ![n] = IF NodeStops(n) THEN FALSE ELSE @]
                          /\ halted' = [halted EXCEPT ![n] = @ \/ NodeStops(n)]
                          /\ haltLen' = IF NodeStops(n)
                                        THEN [c \in Containers |->
                                                IF \E i \in 1..Len(ContainersOf(n)) :
                                                      ContainersOf(n)[i] = c
                                                THEN Len(chist[c].time)
                                                ELSE haltLen[c]]
                                        ELSE haltLen
                     ELSE /\ queue' = (queue \ {e}) \cup
                                { Timeout(e.time, MonitorPeriod * TU, nextEid, "nmon", n,
                                          "loop", e.pid) }
                          /\ nextEid' = nextEid + 1
                          /\ noise' = n1
                          /\ UNCHANGED <<crunning, cusage, wactive, wremoved, nrunning,
                                         halted, haltLen>>
          /\ UNCHANGED <<conf, ids, lb, raised, phase, cwmap, chist, whost, wtime, wadded, cchecks>>

\* env.run(until=simulation_time): the until-event stops the run
Until ==
    /\ phase = "run"
    /\ LET e == NextEvent
       IN /\ e.kind = "until"
          /\ now' = e.time
          /\ phase' = "done"
          /\ queue' = queue \ {e}
          /\ last' = Step(e, TRUE, FALSE)
    /\ UNCHANGED <<conf, ids, lb, raised, nextEid, noise, ncap, nrunning, nhist, crunning, cusage,
                   cwmap, chist, wactive, whost, wtime, wadded, wremoved, cchecks, halted,
                   haltLen>>

Next ==
    \/ \E w \in Workloads, c \in Containers : AddWorkload(w, c)
    \/ SimulationRun
    \/ ContainerRun
    \/ ContainerStart
    \/ NodeRun
    \/ NodeStart
    \/ NodeMonitor
    \/ Until

Spec == Init /\ [][Next]_vars

\* the clients of the scenarios and of the load balancer
ScenarioInit == Built(ScenarioConfigs)

ScenarioNext ==
    \/ \E useRes \in BOOLEAN : AssignWorkloadReqToContainer(useRes)
    \/ \E w \in Workloads, c \in Containers : AddWorkloadAfterRun(w, c)
    \/ Next

ScenarioSpec == ScenarioInit /\ [][ScenarioNext]_vars

\* the clients whose node has stop_lack_of_resource=False
NoStopConfigs == {cf \in Configs : ~cf.stopLack}
NoStopInit == Built(NoStopConfigs)
NoStopSpec == NoStopInit /\ [][Next]_vars

\* the clients whose node has stop_lack_of_resource=True
StopConfigs == {cf \in Configs : cf.stopLack}
StopInit == Built(StopConfigs)
StopSpec == StopInit /\ [][Next]_vars

\* a data center of two nodes: each node hosts one container, the client
\* admits two workload requests to the containers
TwoNodeConfigs ==
    { [ order |-> o, stopLack |-> TRUE, jitter |-> "none", dc |-> TRUE,
        horizon |-> Horizon * TU, ncap |-> NodeCap, nsud |-> 1,
        ccap |-> <<ContainerCap, ContainerCap>>, csud |-> <<1, d2>>,
        wl |-> <<k1, k2>>, hosts |-> << <<1>>, <<2>> >> ] :
        o \in Orders, d2 \in {1, 2 * TU},
        k1 \in WorkloadKinds, k2 \in WorkloadKinds }
DataCenterInit == Built(TwoNodeConfigs)
DataCenterSpec == DataCenterInit /\ [][Next]_vars

\* a client that has constructed nothing yet and constructs workload
\* requests, containers and nodes in any order
NothingBuilt ==
    [ order |-> "cf", stopLack |-> TRUE, jitter |-> "none", dc |-> TRUE,
      horizon |-> Horizon * TU, ncap |-> NodeCap, nsud |-> 1,
      ccap |-> <<>>, csud |-> <<>>, wl |-> <<>>, hosts |-> <<>> ]
CreationInit == Built({NothingBuilt})
CreationNext == \E cls \in Classes : Create(cls)
CreationSpec == CreationInit /\ [][CreationNext]_vars

\* the clients that only place workloads: the batches, with and without
\* workload fluctuation, and the scenarios; a client admits workloads itself
\* or creates a load balancer, and may create a second one
PlacerConfigs ==
    ScenarioConfigs \cup {[cf EXCEPT !.jitter = "workload"] : cf \in BatchConfigs}
PlacerInit == Built(PlacerConfigs)
PlacerNext ==
    \/ \E useRes \in BOOLEAN : AssignWorkloadReqToContainer(useRes)
    \/ \E useRes \in BOOLEAN : AssignNewWorkloadReqsToContainer(useRes)
    \/ AssignWorkloadReqToContainerAgain
    \/ \E w \in Workloads, c \in Containers : AddWorkload(w, c)
PlacerSpec == PlacerInit /\ [][PlacerNext]_vars

\* the clients that admit some workloads themselves, hand the others to a
\* load balancer, run the simulation, or create the load balancer after it
ClientConfigs ==
    {cf \in BatchConfigs : \A i \in 1..Len(cf.wl) : cf.wl[i].type \in {"heavy", "light"}}
ClientInit == Built(ClientConfigs)
ClientNext ==
    \/ \E useRes \in BOOLEAN : AssignWorkloadReqToContainer(useRes)
    \/ \E useRes \in BOOLEAN : AssignNewWorkloadReqsToContainer(useRes)
    \/ \E useRes \in BOOLEAN : AssignWorkloadReqsAfterRun(useRes)
    \/ Next
ClientSpec == ClientInit /\ [][ClientNext]_vars

\* ----------------------------------------------------------- properties
\* the workloads admitted to container c, and the live window of a workload
Hosted(c) == {w \in Workloads : whost[w] = c}
WStart(w) == wtime[w] + WL(w).delay
WEnd(w) == WStart(w) + WL(w).duration
InWindow(w, t) == WStart(w) <= t /\ t < WEnd(w)
ContainerSet(n) == {ContainersOf(n)[i] : i \in 1..Len(ContainersOf(n))}

\* the last step was a monitor tick of node n
MonitorTicked(n) == last.kind = "nmon" /\ last.who = n
\* the last step was a run step of container c
ContainerStepped(c) == last.kind = "crun" /\ last.who = c

\* the usage and the envelope recorded at index k of the history of node n
UsedAt(n, d, k) == nhist[n][d][k]
EnvelopeAt(n, d, k) == nhist[n][AvailField(d)][k]

\* C1: when a monitor tick halts a node with stop_lack_of_resource, the usage
\* recorded for that tick exceeds the envelope recorded for that tick in some
\* dimension, and at every earlier recorded tick the usage was within the
\* envelope in all four dimensions.
C1_HaltOnlyWhenEnvelopeExceeded ==
    \A n \in Nodes :
        (conf.stopLack /\ MonitorTicked(n) /\ last.viol) =>
            LET k == Len(nhist[n].time)
            IN /\ \E d \in Dims : UsedAt(n, d, k) > EnvelopeAt(n, d, k)
               /\ \A j \in 1..(k - 1) : \A d \in Dims :
                      UsedAt(n, d, j) <= EnvelopeAt(n, d, j)

\* the usage recorded at the last tick of n exceeds the availability of n
\* (the recorded envelope less the usage, not below 0) in some dimension
ExceededAtLastTick(n) ==
    LET k == Len(nhist[n].time)
    IN \E d \in Dims :
          UsedAt(n, d, k) > Max(0, Plus(d, EnvelopeAt(n, d, k), -UsedAt(n, d, k)))

\* C2: a monitor tick of a node with stop_lack_of_resource that finds the
\* summed usage above the availability halts the node in that tick: the node
\* is not running, every container that was running is stopped with usage 0
\* and inactive workloads, and the monitor process is gone.
C2_ViolationHaltsNode ==
    \A n \in Nodes :
        (conf.stopLack /\ MonitorTicked(n) /\ ExceededAtLastTick(n)) =>
            /\ ~nrunning[n]
            /\ \A c \in ContainerSet(n) :
                  /\ ~crunning[c]
                  /\ c \in last.wasRunning =>
                        /\ cusage[c] = Zero4
                        /\ \A w \in Hosted(c) : ~wactive[w]
            /\ \A e \in queue : e.pid # last.pid

C2_Witness ==
    \E n \in Nodes : \E c \in ContainerSet(n) : \E w \in Hosted(c) :
        /\ conf.stopLack /\ MonitorTicked(n) /\ ExceededAtLastTick(n)
        /\ c \in last.wasRunning /\ wremoved[w] # <<>> /\ ~crunning[c]

\* C3: once a node has halted it stays halted together with all its
\* containers: the node and every container of it are not running and no
\* container history grows after the halt.
C3_HaltIrreversible ==
    \A n \in Nodes :
        halted[n] =>
            /\ ~nrunning[n]
            /\ \A c \in ContainerSet(n) :
                  ~crunning[c] /\ Len(chist[c].time) = haltLen[c]

\* C4 as stated: after every run step of a container, from admission to the
\* horizon, a workload admitted to it is active iff now is in its window.
C4_ActivationWindowAlways ==
    \A c \in Containers :
        ContainerStepped(c) =>
            \A w \in Hosted(c) : wactive[w] <=> InWindow(w, now)

\* C4 amended: after every run step that found the container running, a
\* workload admitted to it is active iff now is in its window.
C4_ActivationWindowWhileRunning ==
    \A c \in Containers :
        (ContainerStepped(c) /\ last.ran) =>
            \A w \in Hosted(c) : wactive[w] <=> InWindow(w, now)

C4_Witness ==
    \E c \in Containers : \E w, v \in Hosted(c) :
        /\ ContainerStepped(c) /\ last.ran
        /\ wactive[w] /\ InWindow(w, now)
        /\ ~wactive[v] /\ now >= WEnd(v) /\ wremoved[v] # <<>>

\* C5: the quantities subtracted from the usage when a workload is
\* deactivated are the quantities added when it was activated.
C5_DeactivationSubtractsActivationSample ==
    \A w \in Workloads : wremoved[w] # <<>> => wremoved[w] = wadded[w]

\* C6: in a run without any fluctuation, once every workload of a running
\* container has ended and been deactivated, the usage of the container is
\* 0 in all four dimensions, and stays 0.
C6_ZeroJitterReturnsToZero ==
    \A c \in Containers :
        ( /\ conf.jitter = "none" /\ crunning[c]
          /\ \E w \in Hosted(c) : wremoved[w] # <<>>
          /\ \A w \in Hosted(c) : ~wactive[w] /\ now >= WEnd(w) )
        => cusage[c] = Zero4

\* C7: every value in a container history is >= 0 and the current usage of
\* every container is >= 0 after every step.
C7_NonNegative ==
    \A c \in Containers : \A d \in Dims :
        /\ cusage[c][d] >= 0
        /\ \A k \in 1..Len(chist[c][d]) : chist[c][d][k] >= 0

C7_Witness ==
    \E c \in Containers : \E w \in Hosted(c) : \E d \in Dims :
        /\ ContainerStepped(c) /\ last.ran
        /\ wremoved[w] # <<>> /\ wadded[w] # <<>>
        /\ wremoved[w][1][d] > wadded[w][1][d]
        /\ cusage[c][d] = 0 /\ Last(chist[c][d]) = 0

\* C8: the five history lists of a container have the same length and the
\* nine history lists of a node have the same length after every step,
\* the monitor tick that detects a violation included.
C8_HistoryAligned ==
    /\ \A c \in Containers : \A d \in Dims :
          Len(chist[c][d]) = Len(chist[c].time)
    /\ \A n \in Nodes : \A d \in Dims :
          /\ Len(nhist[n][d]) = Len(nhist[n].time)
          /\ Len(nhist[n][AvailField(d)]) = Len(nhist[n].time)

C8_Witness ==
    \E n \in Nodes : \E c \in ContainerSet(n) :
        /\ MonitorTicked(n) /\ last.viol /\ halted[n]
        /\ Len(nhist[n].time) >= 2 /\ Len(chist[c].time) >= 1

\* C9: the history of a container has one entry for every run step that
\* found it running and none for a step that found it not running; the
\* recorded times are whole ticks and strictly increasing.
C9_OneEntryPerRunningTick ==
    \A c \in Containers :
        /\ Len(chist[c].time) = cchecks[c]
        /\ \A k \in 1..Len(chist[c].time) : chist[c].time[k] % TU = 0
        /\ \A k \in 1..(Len(chist[c].time) - 1) :
              chist[c].time[k] < chist[c].time[k + 1]
        /\ (ContainerStepped(c) /\ c \notin last.wasRunning) =>
              (chist[c].time = <<>> \/ Last(chist[c].time) < now)

C9_Witness ==
    \E c \in Containers :
        /\ ContainerStepped(c) /\ c \notin last.wasRunning
        /\ Len(chist[c].time) >= 2

\* C10: a node's history has one entry per monitor tick, consecutive
\* entries are 2 time units apart, and no entry is recorded while the node
\* is not running.
C10_MonitorEveryTwoUnits ==
    \A n \in Nodes :
        /\ \A k \in 1..(Len(nhist[n].time) - 1) :
              nhist[n].time[k + 1] - nhist[n].time[k] = MonitorPeriod * TU
        /\ MonitorTicked(n) => n \in last.nodeWasRunning

\* the run step of container c for the instant `now` is still waiting in the
\* queue, and it will update the usage (the container is running)
UpdatePending(c) ==
    /\ crunning[c]
    /\ \E e \in queue : e.kind = "crun" /\ e.who = c /\ e.time = now

\* C11: when a monitor tick of a node has read the summed usage at an instant
\* at which a container of the node also has a run step, that container has
\* already made its usage update for the instant, in every construction
\* order of nodes and containers.
C11_ContainersUpdateBeforeMonitor ==
    \A n \in Nodes :
        MonitorTicked(n) => \A c \in ContainerSet(n) : ~UpdatePending(c)

\* ------------------------------------------------- load-balancer properties
\* the load balancer has just placed its batch
Placed == last.kind = "lb"
PlacementSteps == 1..Len(lb.steps)
\* the forecast before placement step k
ForecastBefore(k) == IF k = 1 THEN EmptyForecast ELSE lb.steps[k - 1].F
\* the integer ticks of the live window of workload w: floor(delay) to
\* floor(delay + duration), both ends included
LiveTicks(w) ==
    { t \in 0..((WL(w).delay + WL(w).duration) \div TU) : t * TU + TU > WL(w).delay }
\* the ticks any forecast can speak of
AllTicks == 0..(1 + Max(Horizon, 15))

\* container i fits the workload of placement step k: without reservations
\* the four demands are within what the container has available, with
\* reservations the forecast plus the demand is within the capacity at every
\* tick of the live window; equality counts as fitting
Fits(k, i) ==
    LET w == lb.steps[k].w
    IN IF ~lb.mode
       THEN \A d \in Dims :
               WL(w).base[d] <= Max(0, Plus(d, conf.ccap[i][d], -cusage[i][d]))
       ELSE \A t \in LiveTicks(w) : \A d \in Dims :
               Plus(d, ForecastAt(ForecastBefore(k), i, t)[d], WL(w).base[d])
                   <= conf.ccap[i][d]

\* C12: every workload of a batch is assigned to the first container of the
\* list that fits it (no container at an earlier position fits), in both
\* modes, and a demand equal to what remains counts as fitting.
C12_FirstFit ==
    Placed =>
        \A k \in PlacementSteps :
            LET j == lb.steps[k].c
            IN j # 0 => /\ Fits(k, j)
                        /\ \A i \in 1..(j - 1) : ~Fits(k, i)
                        /\ \A i \in Containers : Fits(k, i) => j <= i

\* some demand of the workload of step k is equal to what container i has left
ExactFit(k, i) ==
    LET w == lb.steps[k].w
    IN /\ Fits(k, i)
       /\ \E d \in Dims :
            IF ~lb.mode THEN WL(w).base[d] = conf.ccap[i][d] - cusage[i][d]
            ELSE \E t \in LiveTicks(w) :
                    /\ ForecastAt(ForecastBefore(k), i, t)[d] > 0
                    /\ Plus(d, ForecastAt(ForecastBefore(k), i, t)[d], WL(w).base[d])
                          = conf.ccap[i][d]

C12_Witness ==
    /\ Placed
    /\ \E k \in PlacementSteps : lb.steps[k].c = 2 /\ ~Fits(k, 1)
    /\ \E k \in PlacementSteps : lb.steps[k].c # 0 /\ ExactFit(k, lb.steps[k].c)

\* the sum of the base demands of the workloads assigned to container c in
\* the placement steps 1..k whose live window contains tick t
RECURSIVE Reserved(_, _, _)
Reserved(k, c, t) ==
    IF k = 0 THEN Zero4
    ELSE IF lb.steps[k].c = c /\ t \in LiveTicks(lb.steps[k].w)
         THEN AddVec(Reserved(k - 1, c, t), WL(lb.steps[k].w).base)
         ELSE Reserved(k - 1, c, t)

\* C13: with reservations, after every placement step, the forecast of every
\* container at every integer tick is the sum of the base demands of the
\* workloads assigned to it whose live window contains the tick, and it is
\* within the capacity of the container in all four dimensions.
C13_ForecastAdmissible ==
    (lb.used /\ lb.mode) =>
        \A k \in PlacementSteps : \A c \in Containers : \A t \in AllTicks :
            /\ ForecastAt(lb.steps[k].F, c, t) = Reserved(k, c, t)
            /\ \A d \in Dims : ForecastAt(lb.steps[k].F, c, t)[d] <= conf.ccap[c][d]

C13_Witness ==
    /\ Placed /\ lb.mode /\ raised # NoError
    /\ \E c \in Containers : \E t \in AllTicks : \E j, k \in PlacementSteps :
          /\ j < k /\ lb.steps[j].c = c /\ lb.steps[k].c = c
          /\ t \in LiveTicks(lb.steps[j].w) \cap LiveTicks(lb.steps[k].w)
          /\ t = (WL(lb.steps[k].w).delay + WL(lb.steps[k].w).duration) \div TU

\* how often workload w occurs in the workload map m
RECURSIVE Occurrences(_, _)
Occurrences(m, w) ==
    IF m = <<>> THEN 0
    ELSE Cardinality({j \in 1..Len(m[1].ws) : m[1].ws[j] = w})
         + Occurrences(Tail(m), w)

\* C14: a call of add_workload_request with a workload that is already in
\* the workload map of the container, under any key and at any time, leaves
\* the map unchanged; after any call the workload is in the map once.
C14_IdempotentAdmission ==
    [][ \A w \in Workloads, c \in Containers :
            AddWorkloadCall(w, c) =>
                /\ InMap(cwmap[c], w) => cwmap' = cwmap
                /\ Occurrences(cwmap'[c], w) = 1 ]_vars

C14_Witness ==
    /\ last.kind = "add" /\ ~last.ran /\ phase = "done"
    /\ \E i \in 1..Len(cwmap[last.who]) :
          /\ cwmap[last.who][i].t < now
          /\ InMap(<<cwmap[last.who][i]>>, last.pid)

\* the client runs scenario S5
IsScenarioS5 == \E o \in Orders : conf = ScenarioS5(o)

\* C15: when the load balancer comes to a workload of its batch that no
\* container fits, it raises an error that names the type and the delay of
\* the workload, and the workload is in the workload map of no container;
\* in scenario S5 the error is raised and the map of C1 stays empty, in
\* both modes.
C15_PlacementInfeasible ==
    Placed =>
        /\ \A k \in PlacementSteps :
              (\A i \in Containers : ~Fits(k, i)) =>
                  LET w == lb.steps[k].w
                  IN /\ raised = [error |-> "RuntimeError", by |-> "load balancer",
                                  type |-> WL(w).type, delay |-> WL(w).delay]
                     /\ \A c \in Containers : ~InMap(cwmap[c], w)
        /\ IsScenarioS5 =>
              /\ raised.error = "RuntimeError" /\ raised.by = "load balancer"
              /\ cwmap[1] = <<>>

C15_Witness ==
    /\ Placed /\ IsScenarioS5 /\ ~lb.mode
    /\ raised.type = "W1" /\ raised.delay = 0 /\ lb.steps[1].c = 0

\* C16: Simulation.run without a data center raises an error to the caller
\* and changes nothing else: no process is registered, the clock does not
\* advance and every entity is as it was.
C16_MisconfiguredRunRaises ==
    [][ (SimulationRun /\ ~conf.dc) =>
            /\ raised'.error = "RuntimeError" /\ raised'.by = "Simulation.run"
            /\ UNCHANGED <<conf, ids, phase, now, queue, nextEid, noise, ncap, nrunning,
                           nhist, crunning, cusage, cwmap, chist, wactive, whost,
                           wtime, wadded, wremoved, cchecks, halted, haltLen, lb>>
      ]_vars

C16_Witness ==
    /\ ~conf.dc /\ last.kind = "run" /\ raised.by = "Simulation.run"
    /\ phase = "setup" /\ now = 0 /\ queue = Constructed(conf.order)
    /\ \A w \in Workloads : whost[w] # 0

\* the client runs the entities of scenarios S2 and S3
IsScenarioS23 == \E o \in Orders : conf = ScenarioS23(o)
\* the container each workload of the batch was assigned to
Assignment == [k \in PlacementSteps |-> lb.steps[k].c]

\* C17 as stated: in scenario S2, placed with reservations, the assignment
\* is W1 -> C1, W2 -> C2, W3 -> C1.
C17_S2AsStated ==
    (IsScenarioS23 /\ Placed /\ lb.mode) => Assignment = <<1, 2, 1>>

\* C17 amended: in scenario S2, placed with reservations, the assignment is
\* W1 -> C1, W2 -> C2, W3 -> C2, and no error is raised.
C17_S2Placement ==
    (IsScenarioS23 /\ Placed /\ lb.mode) =>
        Assignment = <<1, 2, 2>> /\ raised = NoError

\* W3 does not fit C1: at tick 3 the disk reserved by W1 plus the disk of W3
\* is more than the disk of C1, while the cpu and the ram would fit
C17_Witness ==
    /\ IsScenarioS23 /\ Placed /\ lb.mode /\ lb.steps[3].c = 2
    /\ ForecastAt(ForecastBefore(3), 1, 3).disk + WL(3).base.disk > conf.ccap[1].disk
    /\ \A t \in LiveTicks(3) : \A d \in {"cpu", "ram", "bw"} :
          Plus(d, ForecastAt(ForecastBefore(3), 1, t)[d], WL(3).base[d])
              <= conf.ccap[1][d]


\* S3: the entities of S2 placed by the load balancer without reservations
IsScenarioS3 == IsScenarioS23 /\ lb.used /\ ~lb.mode

\* the workloads W1 and W2 are both active on C1
BothActiveOnC1 == whost[1] = 1 /\ whost[2] = 1 /\ wactive[1] /\ wactive[2]

\* C18 as stated: in S3 the node N1 has detected the exhaustion and halted
\* by the end of the run.
C18_S3AsStated ==
    (IsScenarioS3 /\ phase = "done") => halted[1]

\* C18 amended: in S3 all three workloads are placed on C1, and N1 never
\* halts: at every instant from the placement to the horizon N1 has not been
\* halted, also while W1 and W2 are both active on C1 and the usage of C1 is
\* above the capacity of C1; at the horizon N1 and C1 are running.
C18_S3NeverHalts ==
    IsScenarioS3 =>
        /\ Assignment = <<1, 1, 1>>
        /\ raised = NoError
        /\ ~halted[1]
        /\ ~(MonitorTicked(1) /\ last.viol)
        /\ phase = "done" => nrunning[1] /\ crunning[1]

C18_Witness ==
    /\ IsScenarioS3 /\ MonitorTicked(1) /\ now = 4 * TU
    /\ BothActiveOnC1
    /\ cusage[1].cpu > conf.ccap[1].cpu
    /\ nrunning[1] /\ ~halted[1]


\* S4 while it runs and after: both workloads were admitted to C1 at time 0
IsScenarioS4 ==
    /\ \E o \in Orders : conf = ScenarioS4(o)
    /\ phase # "setup"
    /\ whost = <<1, 1>> /\ wtime = <<0, 0>>

\* C19: in S4 the only monitor tick that detects the exhaustion is the one at
\* t=2, and after t=2 the node N1 has halted, C1 is not running and the
\* history of C1 has not grown since the halt.
C19_S4HaltsAtTwo ==
    IsScenarioS4 =>
        /\ (MonitorTicked(1) /\ last.viol) => now = 2 * TU
        /\ now > 2 * TU =>
              /\ halted[1] /\ ~nrunning[1] /\ ~crunning[1]
              /\ Len(chist[1].time) = haltLen[1]


\* S1 while it runs and after: W1 was admitted to C1 at time 0
IsScenarioS1 ==
    /\ \E o \in Orders : conf = ScenarioS1(o)
    /\ phase # "setup"
    /\ whost = <<1>> /\ wtime = <<0>>

\* C1 has made its update for the instant t, and time has not advanced
UpdatedAt(c, t) ==
    now = t /\ chist[c].time # <<>> /\ Last(chist[c].time) = t

\* C20: in S1, after the update of C1 at t=4 the usage of C1 is cpu 1.0 and
\* ram 512; after its update at t=11 all four usages are 0; the history of
\* C1 has one entry for every integer tick at which C1 was running (the ticks
\* 2 to 14 by the horizon), with the quantities of W1 recorded from t=3 up to
\* t=10 and 0 otherwise; and N1 never halts.
C20_S1Completes ==
    IsScenarioS1 =>
        /\ UpdatedAt(1, 4 * TU) => cusage[1].cpu = 2 /\ cusage[1].ram = 512
        /\ UpdatedAt(1, 11 * TU) => cusage[1] = Zero4
        /\ Len(chist[1].time) = cchecks[1]
        /\ \A k \in 1..Len(chist[1].time) :
              /\ chist[1].time[k] = (k + 1) * TU
              /\ [d \in Dims |-> chist[1][d][k]] =
                    IF 3 * TU <= chist[1].time[k] /\ chist[1].time[k] < 11 * TU
                    THEN W1.base ELSE Zero4
        /\ phase = "done" => Len(chist[1].time) = 13
        /\ ~halted[1]
        /\ ~(MonitorTicked(1) /\ last.viol)
        /\ phase = "done" => nrunning[1] /\ crunning[1]

C20_Witness ==
    /\ IsScenarioS1 /\ phase = "done" /\ now = 15 * TU
    /\ Len(chist[1].time) = 13
    /\ chist[1].time[3] = 4 * TU /\ chist[1].cpu[3] = 2 /\ chist[1].ram[3] = 512
    /\ chist[1].time[10] = 11 * TU /\ chist[1].cpu[10] = 0
    /\ wremoved[1] # <<>> /\ cusage[1] = Zero4
    /\ nrunning[1] /\ ~halted[1]


\* the usage recorded at index k of the history of n exceeds the availability
\* of n at that tick in some dimension
ExceededAt(n, k) ==
    \E d \in Dims :
        UsedAt(n, d, k) > Max(0, Plus(d, EnvelopeAt(n, d, k), -UsedAt(n, d, k)))

\* the integer instants after the instant t and before the horizon
LaterTicks(t) == {u \in (t + 1)..(conf.horizon - 1) : u % TU = 0}

\* C21: on a node with stop_lack_of_resource=false, a monitor tick that
\* observes a capacity violation changes neither the running flag of the
\* node nor the running flag, the usage, the workload map or the workloads
\* of any container, the node is never halted, and by the end of the run a
\* monitor tick has been recorded at every integer instant between a
\* recorded violation and the horizon.
C21_ViolationOnlyLogged ==
    /\ [][ (~conf.stopLack /\ last'.kind = "nmon" /\ last'.viol) =>
              /\ nrunning[1] /\ nrunning' = nrunning
              /\ crunning' = crunning /\ cusage' = cusage /\ cwmap' = cwmap
              /\ wactive' = wactive /\ wremoved' = wremoved ]_vars
    /\ [](~conf.stopLack => ~halted[1])
    /\ []((~conf.stopLack /\ phase = "done") =>
             \A k \in 1..Len(nhist[1].time) :
                 ExceededAt(1, k) =>
                     \A t \in LaterTicks(nhist[1].time[k]) :
                         \E j \in (k + 1)..Len(nhist[1].time) :
                             nhist[1].time[j] = t)

C21_Witness ==
    /\ ~conf.stopLack /\ phase = "done" /\ nrunning[1]
    /\ \E c \in Containers : crunning[c] /\ Len(chist[c].time) > 0
    /\ \E k \in 1..Len(nhist[1].time) :
          /\ ExceededAt(1, k)
          /\ LaterTicks(nhist[1].time[k]) # {}
          /\ Last(nhist[1].time) = conf.horizon - TU


\* the workloads admitted to a container that node n does not host
ForeignWorkloads(n) == {w \in Workloads : whost[w] \notin ContainerSet(n)}

\* C22: when a monitor tick of a node detects capacity exhaustion and halts
\* the node, no other node has its running flag, capacity or history changed,
\* no container of another node has its running flag, usage, workload map,
\* history or workloads changed, no error is raised to the caller of
\* Simulation.run and the run goes on; a node that was never halted is
\* running from its start-up on, and at the end of the run it has recorded a
\* monitor tick at the last integer instant before the horizon.
C22_FaultScopedToNode ==
    /\ [][ \A n \in Nodes :
              (last'.kind = "nmon" /\ last'.who = n /\ last'.viol) =>
                  /\ \A m \in Nodes \ {n} :
                        /\ nrunning'[m] = nrunning[m]
                        /\ nhist'[m] = nhist[m] /\ ncap'[m] = ncap[m]
                        /\ halted'[m] = halted[m]
                  /\ \A c \in Containers \ ContainerSet(n) :
                        /\ crunning'[c] = crunning[c] /\ cusage'[c] = cusage[c]
                        /\ cwmap'[c] = cwmap[c] /\ chist'[c] = chist[c]
                  /\ \A w \in ForeignWorkloads(n) :
                        wactive'[w] = wactive[w] /\ wremoved'[w] = wremoved[w]
                  /\ raised' = NoError /\ phase' = "run"
                  /\ \A e \in queue : e.who # n => e \in queue' ]_vars
    /\ [](\A m \in Nodes :
             (phase = "done" /\ ~halted[m]) =>
                 /\ nrunning[m]
                 /\ Last(nhist[m].time) = conf.horizon - TU)

C22_Witness ==
    \E n, m \in Nodes : \E c \in ContainerSet(m) : \E w \in Hosted(c) :
        /\ n # m /\ phase = "done"
        /\ halted[n] /\ ~nrunning[n]
        /\ \A b \in ContainerSet(n) : ~crunning[b] /\ Hosted(b) # {}
        /\ ~halted[m] /\ nrunning[m] /\ crunning[c]
        /\ wadded[w] # <<>>
        /\ Last(chist[c].time) = conf.horizon - TU
        /\ Last(nhist[m].time) = conf.horizon - TU


\* the container chosen for each workload of the batch (0: none) by the
\* earlier load balancer
EarlierAssignment == [k \in 1..Len(lb.prev) |-> lb.prev[k].c]

MadeBefore(cls, i) == {j \in 1..(i - 1) : ids.made[j].cls = cls}

\* C24: whatever the order in which workload requests, containers and nodes
\* are constructed, the k-th instance of a class has id k-1: the ids of a
\* class are unique and strictly increasing in construction order, each
\* class counting for itself.
C24_IdMonotonicity ==
    /\ \A i \in 1..Len(ids.made) :
          ids.made[i].id = Cardinality(MadeBefore(ids.made[i].cls, i))
    /\ \A i, j \in 1..Len(ids.made) :
          (i < j /\ ids.made[i].cls = ids.made[j].cls) =>
              ids.made[i].id < ids.made[j].id

C24_Witness ==
    /\ Len(ids.made) = 5
    /\ [i \in 1..5 |-> ids.made[i].cls] =
          <<"workload", "container", "workload", "container", "workload">>
    /\ [i \in 1..5 |-> ids.made[i].id] = <<0, 0, 1, 1, 2>>


\* the running flags, usages and workload flags as Container.stop sees them
World ==
    [run |-> crunning, u |-> cusage, act |-> wactive, removed |-> wremoved,
     noise |-> noise]

\* C25: in every state, Container.stop on a running container leaves it not
\* running, with all four usages 0 and every workload of its map inactive,
\* and touches no other container; on a container that is not running it
\* changes nothing, so a second stop after a stop changes nothing; and after
\* a node has stopped its containers, each of them is not running, and those
\* that were running have usage 0 and no active workload.
C25_StopSemantics ==
    /\ \A c \in Containers :
          /\ ~crunning[c] => ContainerStop(World, c) = {World}
          /\ \A wd \in ContainerStop(World, c) :
                /\ ~wd.run[c]
                /\ crunning[c] =>
                      /\ wd.u[c] = Zero4
                      /\ \A w \in Workloads : InMap(cwmap[c], w) => ~wd.act[w]
                /\ \A b \in Containers \ {c} :
                      wd.run[b] = crunning[b] /\ wd.u[b] = cusage[b]
                /\ ContainerStop(wd, c) = {wd}
    /\ \A n \in Nodes :
          (conf.stopLack /\ MonitorTicked(n) /\ last.viol) =>
              \A c \in ContainerSet(n) :
                  /\ ~crunning[c]
                  /\ c \in last.wasRunning =>
                        /\ cusage[c] = Zero4
                        /\ \A w \in Workloads : InMap(cwmap[c], w) => ~wactive[w]

C25_Witness ==
    \E n \in Nodes : \E c, b \in ContainerSet(n) : \E w \in Hosted(c) :
        /\ conf.stopLack /\ MonitorTicked(n) /\ last.viol
        /\ c \in last.wasRunning /\ b \notin last.wasRunning
        /\ InMap(cwmap[c], w) /\ wremoved[w] # <<>> /\ wremoved[w] # wadded[w]
        /\ cusage[c] = Zero4 /\ ~crunning[c] /\ ~crunning[b]


\* C26: a workload that a running container has deactivated at the end of
\* its window is no longer in the workload map of the container after that
\* same run step, and no workload map ever holds an empty bucket.
C26_RemovalOnCompletion ==
    \A c \in Containers :
        /\ \A w \in Hosted(c) :
              (wremoved[w] # <<>> /\ ~wactive[w]) => ~InMap(cwmap[c], w)
        /\ \A i \in 1..Len(cwmap[c]) : cwmap[c][i].ws # <<>>
        /\ (ContainerStepped(c) /\ last.ran) =>
              \A w \in Hosted(c) : now >= WEnd(w) => ~wactive[w]

C26_Witness ==
    \E c \in Containers : \E w, v \in Hosted(c) :
        /\ ContainerStepped(c) /\ last.ran /\ now = WEnd(w)
        /\ wremoved[w] # <<>> /\ ~InMap(cwmap[c], w)
        /\ InMap(cwmap[c], v) /\ wactive[v]


\* C28: a workload of the map that is not active and is not being activated
\* adds nothing to the usage of its container.  With fluctuation on the
\* workloads only: after a tick of a running container none of whose
\* workloads has been active so far, the usage of the container is still 0.
NeverActive(c) ==
    \A w \in Hosted(c) : ~wactive[w] /\ wadded[w] = <<>> /\ wremoved[w] = <<>>

C28_IdleWorkloadAddsNothing ==
    \A c \in Containers :
        ( /\ conf.jitter = "workload"
          /\ ContainerStepped(c) /\ last.ran
          /\ NeverActive(c) ) => cusage[c] = Zero4


\* C27: when the run is over and the node has not halted, every workload
\* that was admitted to a container and whose window ended more than one
\* container tick before the horizon has been activated, has been
\* deactivated and is no longer in the workload map of its container.
C27_WorkloadLifecycle ==
    (phase = "done" /\ \A n \in Nodes : ~halted[n]) =>
        \A w \in Workloads :
            (whost[w] # 0 /\ WEnd(w) + ContainerTick * TU < conf.horizon) =>
                /\ wadded[w] # <<>> /\ wremoved[w] # <<>> /\ ~wactive[w]
                /\ ~InMap(cwmap[whost[w]], w)


\* the first workload request of the batch of the load balancer
FirstOfBatch == lb.steps[1].w

\* the sum of the base demands of the workloads that container c held before
\* the batch and whose live window contains tick t
RECURSIVE AdmittedBefore(_, _, _)
AdmittedBefore(w, c, t) ==
    IF w = 0 THEN Zero4
    ELSE IF whost[w] = c /\ t \in LiveTicks(w)
         THEN AddVec(AdmittedBefore(w - 1, c, t), WL(w).base)
         ELSE AdmittedBefore(w - 1, c, t)

\* C29: with reservations, a workload of the batch is placed on a container
\* only if, at every tick of its live window, its demand together with the
\* demand admitted to that container before the batch and with the demand of
\* the batch placed there so far is within the capacity of the container.
C29_AdmittedDemandCounted ==
    (lb.used /\ lb.mode /\ lb.prev = <<>>) =>
        \A k \in PlacementSteps :
            lb.steps[k].c # 0 =>
                \A t \in LiveTicks(lb.steps[k].w) : \A d \in Dims :
                    Plus(d, AdmittedBefore(FirstOfBatch - 1, lb.steps[k].c, t)[d],
                            Reserved(k, lb.steps[k].c, t)[d])
                        <= conf.ccap[lb.steps[k].c][d]


\* one batch was placed with reservations on idle containers with empty
\* workload maps, nothing fluctuates, and every workload a container holds
\* was placed there by the batch
OnlyReservedBatch ==
    /\ lb.used /\ lb.mode /\ lb.prev = <<>>
    /\ conf.jitter = "none"
    /\ \A w \in Workloads :
          whost[w] # 0 =>
              \E k \in PlacementSteps : lb.steps[k].w = w /\ lb.steps[k].c = whost[w]

\* C30: after a batch placed with reservations at time 0 on idle containers
\* with empty maps, without fluctuation and without any other admission, the
\* usage of every container is within its base capacity in all four
\* dimensions at the end of every container tick of the run.
C30_ReservedUsageWithinCapacity ==
    OnlyReservedBatch =>
        \A c \in Containers :
            ContainerStepped(c) =>
                \A d \in Dims : cusage[c][d] <= conf.ccap[c][d]


\* the workloads that the placement steps assign to container c, in the
\* order of the steps
AssignedTo(steps, c) ==
    LET Here(step) == step.c = c
        sel == SelectSeq(steps, Here)
    IN [i \in 1..Len(sel) |-> sel[i].w]

\* the workload map m with the workloads ws appended under the key t
WithAppended(m, t, ws) ==
    IF ws = <<>> THEN m
    ELSE IF \E i \in 1..Len(m) : m[i].t = t
    THEN [i \in 1..Len(m) |->
            IF m[i].t = t THEN [t |-> t, ws |-> m[i].ws \o ws] ELSE m[i]]
    ELSE Append(m, [t |-> t, ws |-> ws])

\* C31: a placement of a batch by a load balancer appends the workloads it
\* assigns to a container, in batch order, to the list of that container
\* under the key env.now, after the workloads already there, and changes no
\* other list; each assigned workload is assigned once and is received at
\* env.now.  During the run a workload placed by the load balancer is active
\* after a tick of its container only inside the window that begins delay
\* after the time of the placement and lasts duration.
C31_PlacedAtPlacementTime ==
    /\ [][ (~lb.used /\ lb'.used) =>
             /\ \A c \in Containers :
                   cwmap'[c] = WithAppended(cwmap[c], now, AssignedTo(lb'.steps, c))
             /\ \A k \in 1..Len(lb'.steps) :
                   lb'.steps[k].c # 0 =>
                      /\ wtime'[lb'.steps[k].w] = now
                      /\ whost'[lb'.steps[k].w] = lb'.steps[k].c
                      /\ \A j \in 1..Len(lb'.steps) :
                            lb'.steps[j].w = lb'.steps[k].w => j = k ]_vars
    /\ [](\A c \in Containers : \A w \in Hosted(c) :
             ( /\ lb.used /\ \E k \in PlacementSteps : lb.steps[k].w = w
               /\ ContainerStepped(c) /\ last.ran /\ wactive[w] )
             => InWindow(w, now))

C31_Witness ==
    /\ Placed /\ phase = "done" /\ now = conf.horizon
    /\ \E c \in Containers : \E i, j \in 1..Len(cwmap[c]) :
          /\ cwmap[c][i].t = 0 /\ cwmap[c][j].t = now
          /\ Len(cwmap[c][j].ws) >= 2
          /\ cwmap[c][j].ws = AssignedTo(lb.steps, c)


\* the first load balancer of the client has just failed on a workload
PlacementFailed ==
    /\ Placed /\ lb.prev = <<>>
    /\ raised.error = "RuntimeError" /\ raised.by = "load balancer"

\* C32: when the load balancer fails on a workload of its batch, the failing
\* step is the last one, every workload of the steps before it is in the
\* workload map of the container chosen for it, and the failing workload and
\* every later workload of the batch is admitted to no container and has no
\* placement step.
C32_FailureAbortsWithoutRollback ==
    PlacementFailed =>
        LET i == Len(lb.steps)
            failed == lb.steps[i].w
        IN /\ lb.steps[i].c = 0
           /\ \A k \in 1..(i - 1) :
                 /\ lb.steps[k].c # 0
                 /\ lb.steps[k].w = FirstOfBatch + k - 1
                 /\ InMap(cwmap[lb.steps[k].c], lb.steps[k].w)
                 /\ whost[lb.steps[k].w] = lb.steps[k].c
           /\ failed = FirstOfBatch + i - 1
           /\ \A w \in Workloads :
                 w >= failed =>
                    /\ whost[w] = 0
                    /\ \A c \in Containers : ~InMap(cwmap[c], w)

C32_Witness ==
    /\ PlacementFailed
    /\ Len(lb.steps) = 2 /\ Len(conf.wl) = 3
    /\ InMap(cwmap[lb.steps[1].c], lb.steps[1].w)
    /\ \E c \in Containers : CanAccommodateWorkload(lb.mode, lb.steps[2].F, c, 3)


\* C33: after any sequence of add_workload_request calls and placements of
\* batches, no workload occurs more than once in the workload map of a
\* container.
C33_NoDuplicateInMap ==
    \A c \in Containers : \A w \in Workloads : Occurrences(cwmap[c], w) <= 1


\* the base capacity of container c covers the demand of workload w alone
CoversAlone(c, w) == \A d \in Dims : WL(w).base[d] <= conf.ccap[c][d]

\* C34: a batch placed without reservations while every container is idle
\* assigns each workload to the first container whose base capacity covers
\* the demand of that workload alone, whatever else the batch holds, and
\* fails on the first workload no container covers; in S3 the three
\* workloads all go to C1.
C34_IdlePlacementIgnoresBatch ==
    (lb.used /\ ~lb.mode /\ \A c \in Containers : cusage[c] = Zero4) =>
        /\ \A k \in PlacementSteps :
              LET fit == {c \in Containers : CoversAlone(c, lb.steps[k].w)}
              IN lb.steps[k].c =
                    (IF fit = {} THEN 0 ELSE CHOOSE c \in fit : \A x \in fit : c <= x)
        /\ (IsScenarioS23 /\ FirstOfBatch = 1) => Assignment = <<1, 1, 1>>

C34_Witness ==
    /\ IsScenarioS23 /\ Placed /\ ~lb.mode /\ lb.prev = <<>>
    /\ Assignment = <<1, 1, 1>>
    /\ cwmap[1] = << [t |-> 0, ws |-> <<1, 2, 3>>] >> /\ cwmap[2] = <<>>
    /\ WL(1).base.cpu + WL(2).base.cpu + WL(3).base.cpu > conf.ccap[1].cpu


\* the dimensions whose quantities are ints
IntDims == Dims \ {"cpu"}

\* C35: every sample of current_<dim>_workload that a container has added
\* for a workload lies, in each integer dimension with base b and
\* percentage p, between the exact values max(0, b - b*p/100) and
\* b + b*p/100 (compared after multiplying by 100), and is b when p is 0.
C35_WorkloadSampleInRange ==
    \A w \in Workloads :
        wadded[w] # <<>> =>
            \A d \in IntDims :
                LET b == WL(w).base[d]
                    p == WL(w).pct[d]
                    v == wadded[w][1][d]
                IN /\ 100 * v >= Max(0, b * (100 - p))
                   /\ 100 * v <= b * (100 + p)
                   /\ p = 0 => v = b


\* C36: every value in the available-histories of a node lies between 0 and
\* the base capacity of its dimension, the envelope computed for any draw
\* between minus twice and twice the base does so too, and available_<dim>
\* of the node is never negative.
C36_EnvelopeInRange ==
    \A n \in Nodes : \A d \in Dims :
        /\ \A k \in 1..Len(nhist[n][AvailField(d)]) :
              0 <= EnvelopeAt(n, d, k) /\ EnvelopeAt(n, d, k) <= ncap[n][d]
        /\ NodeAvailable(nhist[n], ncap[n], TotalUsage(n), d) >= 0
        /\ phase = "setup" =>
              \A x \in (-2 * ncap[n][d])..(2 * ncap[n][d]) :
                 LET e == NodeEnvelope(ncap[n], [Zero4 EXCEPT ![d] = x])[d]
                 IN 0 <= e /\ e <= ncap[n][d]

C36_Witness ==
    /\ conf.jitter = "node"
    /\ \E n \in Nodes :
          /\ Len(nhist[n].abw) >= 2
          /\ Last(nhist[n].abw) < ncap[n].bw
          /\ nhist[n].abw[Len(nhist[n].abw) - 1] = ncap[n].bw
          /\ TotalUsage(n).bw > Last(nhist[n].abw)
          /\ NodeAvailable(nhist[n], ncap[n], TotalUsage(n), "bw") = 0


\* the next step of the run is a tick of a monitor process
MonitorTickNext == phase = "run" /\ NextEvent.kind = "nmon"

\* C37: a monitor tick of a node never changes the base capacities of a
\* node and never changes the history of another node; a tick that detects
\* no violation leaves the usage, the running flag, the workload map and the
\* history of every container, and the active flags of the workloads,
\* unchanged, and adds one entry to the history of its node.
C37_MonitorTickFrame ==
    [][ MonitorTickNext =>
          /\ ncap' = ncap
          /\ \A m \in Nodes : m # NextEvent.who => nhist'[m] = nhist[m]
          /\ ~last'.viol =>
                /\ UNCHANGED <<cusage, crunning, cwmap, chist, wactive, nrunning>>
                /\ Len(nhist'[NextEvent.who].time)
                      = Len(nhist[NextEvent.who].time) + 1 ]_vars

C37_Witness ==
    \E n \in Nodes :
        /\ MonitorTicked(n) /\ ~last.viol /\ Cardinality(Nodes) > 1
        /\ \E c \in ContainerSet(n) :
              crunning[c] /\ cusage[c] # Zero4 /\ cwmap[c] # <<>>
        /\ \E m \in Nodes : m # n /\ halted[m]


\* the time at which Simulation.run registers the start processes
T0 == 0

\* C38: the running flag of a node becomes true exactly at
\* T0 + node.start_up_delay and the running flag of each of its containers
\* exactly at T0 + node.start_up_delay + container.start_up_delay; a
\* container is never running unless its node has been running, and a
\* container that has not yet been running has no usage and no history.
C38_StartUpOrdering ==
    /\ [][ \A n \in Nodes :
             /\ (~nrunning[n] /\ nrunning'[n]) => now' = T0 + conf.nsud
             /\ \A c \in ContainerSet(n) :
                   (~crunning[c] /\ crunning'[c])
                      => now' = T0 + conf.nsud + conf.csud[c] ]_vars
    /\ [](\A n \in Nodes :
             /\ now > T0 + conf.nsud => (nrunning[n] \/ halted[n])
             /\ halted[n] => now >= T0 + conf.nsud
             /\ \A c \in ContainerSet(n) :
                   /\ now > T0 + conf.nsud + conf.csud[c]
                         => (crunning[c] \/ halted[n])
                   /\ crunning[c] => (nrunning[n] \/ halted[n])
                   /\ (~crunning[c] /\ ~halted[n])
                         => /\ cusage[c] = Zero4
                            /\ chist[c].time = <<>>
                   /\ \A i \in 1..Len(chist[c].time) :
                         chist[c].time[i] >= T0 + conf.nsud + conf.csud[c])

C38_Witness ==
    \E n \in Nodes : \E c \in ContainerSet(n) :
        /\ last.kind = "cstart" /\ last.who = c /\ last.ran
        /\ crunning[c] /\ nrunning[n]
        /\ now = T0 + conf.nsud + conf.csud[c]
        /\ conf.csud[c] > 1
        /\ chist[c].time = <<>>
        /\ \E d \in ContainerSet(n) : d # c /\ chist[d].time # <<>>


\* the next step of the run is the pre-check of the start process of a node
StartPreCheckNext ==
    phase = "run" /\ NextEvent.kind = "nstart" /\ NextEvent.pc = "init"

\* does the demand admitted to the containers of node n exceed its base
\* capacity in some dimension
DemandExceedsNode(n) ==
    \E d \in Dims \ {"cpu"} :
        SumUsage([w \in Workloads |-> WL(w).base],
                 [i \in 1..Len(conf.wl) |-> i], d) > ncap[n][d]

\* does the sum of the base capacities of the containers of node n exceed
\* its base capacity in some dimension
CapacityExceedsNode(n) ==
    \E d \in Dims : SumUsage(conf.ccap, ContainersOf(n), d) > ncap[n][d]

\* C39: the pre-check of Node.start registered by Simulation.run sees all
\* usages at 0 and does not raise, whatever the non-negative capacities, so
\* the node is running after its start-up delay, also when the admitted
\* demand or the summed capacity of its containers exceeds its capacity.
C39_StartPreCheckPasses ==
    \A n \in Nodes :
        /\ (StartPreCheckNext /\ NextEvent.who = n)
              => /\ TotalUsage(n) = Zero4
                 /\ ~CheckResourcesRaises(nhist[n], ncap[n], TotalUsage(n))
        /\ (phase = "run" /\ now = T0 + conf.nsud /\ last.kind = "nstart"
              /\ last.who = n /\ last.ran) => nrunning[n]
        /\ (phase \in {"run", "done"} /\ now > T0 + conf.nsud)
              => (nrunning[n] \/ halted[n])
        /\ phase = "setup" =>
              \A x \in 0..ncap[n].ram : \A d \in Dims :
                 ~CheckResourcesRaises(nhist[n], [ncap[n] EXCEPT ![d] = x], Zero4)

C39_Witness ==
    \E n \in Nodes :
        /\ last.kind = "nstart" /\ last.who = n /\ last.ran
        /\ nrunning[n] /\ now = T0 + conf.nsud
        /\ DemandExceedsNode(n)
        /\ CapacityExceedsNode(n)

====
